------------------------------- MODULE Gateway -------------------------------
(***************************************************************************)
(* Delivery of events in the realtime gateway (server/internal/wsgateway): *)
(* the event queue the HTTP handlers fill, the dispatcher that resolves an *)
(* audience and publishes, the replay buffers, and the sockets with their  *)
(* outbound queues, write pumps and resync debts.                          *)
(*                                                                         *)
(* Two locks shape the interleavings.  g.mu is the variable lock: publish  *)
(* and registerAndReplay hold it over several steps of the model, because  *)
(* the write pumps of the sockets, which do not take it, run meanwhile.    *)
(* s.mu only ever guards one step (a set is read, cleared or extended), so *)
(* each step that takes it is atomic here.                                 *)
(*                                                                         *)
(* Everything the gateway reads from the database is read outside g.mu;    *)
(* membership may change between the read and the use.                     *)
(***************************************************************************)
EXTENDS ReplayBuffer, FiniteSets

CONSTANTS
  Channels, Users,
  Sockets,             \* one slot per connection the server can be serving
  Handlers,            \* HTTP requests that can be in flight at once
  NoUser, NoChannel,   \* uuid.Nil, as a user and as a channel
  EventQueue,          \* eventQueue, 1024
  OutboundBuffer,      \* outboundBuffer, 256
  MaxResumeChannels,   \* maxResumeChannels, 64
  StoreMayFail,        \* whether a database read may return an error
  InitialMembers,      \* the membership table when the gateway starts
  MaxCommits,          \* bound: ordered writes of the handlers
  MaxHints,            \* bound: the other writes of the handlers
  MaxChanges,          \* bound: membership changes
  MaxDials,            \* bound: connections opened
  MaxFrames            \* bound: subscribe and typing frames handled

ASSUME GatewayAssumptions ==
  /\ NoUser \notin Users
  /\ NoChannel \notin Channels
  /\ EventQueue \in Nat \ {0}
  /\ OutboundBuffer \in Nat \ {0}
  /\ MaxResumeChannels \in Nat
  /\ StoreMayFail \in BOOLEAN
  /\ InitialMembers \in [Channels -> SUBSET Users]
  /\ MaxCommits \in Nat /\ MaxHints \in Nat /\ MaxChanges \in Nat
  /\ MaxDials \in Nat /\ MaxFrames \in Nat

VARIABLES
  members,    \* the membership table
  handler,    \* per request: the events it has still to announce
  events,     \* g.events
  lock,       \* who holds g.mu: "free", "dispatch" (publish), "replay"
  disp,       \* the dispatcher: where it is, its event, audience and frame
  buffer,     \* g.channels
  phase,      \* per socket: how far its read loop is
  alive,      \* per socket: its write pump runs
  owner,      \* per socket: s.user
  cand,       \* per socket: the resume candidates resolveResume let through
  todo,       \* per socket and channel: window positions still to replay
  checked,    \* per socket: the frame whose membership check has passed
  out,        \* per socket: s.out
  resync,     \* per socket: s.resync
  subs,       \* per socket: s.subs
  pump,       \* per socket: the next step of its write pump
  owed,       \* a drop whose resync mark the lock holder has still to set
  used        \* what has been spent of the bounds

\* History: what the properties are about and the program does not keep.
VARIABLES
  sent,       \* per socket and channel: the numbers written to the connection
  promise,    \* per socket and channel: everything above this is owed to it
  told,       \* per channel, by number: the audience the event was sent to
  fenced      \* per channel: users whose removal the dispatcher has reached

server  == <<members, handler, events, lock, disp, buffer>>
sockets == <<phase, alive, owner, cand, todo, checked, out, resync, subs, pump, owed>>
history == <<sent, promise, told, fenced>>
vars    == <<server, sockets, history, used>>

Chans  == Channels \cup {NoChannel}
Frames == [ch : Chans, seq : Nat]

\* Events that are not ordered, and a socket's own replies, carry no number.
Frame(ch, seq) == [ch |-> ch, seq |-> seq]
Reply          == Frame(NoChannel, 0)

\* The sockets past the handshake, which is what g.sockets holds.
Registered == {s \in Sockets : phase[s] = "up"}

NoClaim == -1
-------------------------------------------------------------------------------
(* Events                                                                  *)

Events ==
  [ch         : Chans,
   ordered    : BOOLEAN,
   subscribed : BOOLEAN,
   scope      : {"members", "named", "verified"},
   to         : SUBSET Users,
   dropSubs   : Users \cup {NoUser},
   exclude    : Users \cup {NoUser}]

\* An event for every member of the channel at send time: the call events and
\* mls_commit.
MemberEvent(ch) ==
  [ch |-> ch, ordered |-> FALSE, subscribed |-> FALSE, scope |-> "members",
   to |-> {}, dropSubs |-> NoUser, exclude |-> NoUser]

\* MessageCreated, MessageUpdated, MessageDeleted, ChannelUpdated, MemberAdded.
Ordered(ch) == [MemberEvent(ch) EXCEPT !.ordered = TRUE]

MemberRemoved(ch, u) == [Ordered(ch) EXCEPT !.dropSubs = u]

ChannelCreated(ch, u) == [MemberEvent(ch) EXCEPT !.scope = "verified", !.to = {u}]

\* ReadPosition, and MlsWelcome when ch is NoChannel.
Self(ch, u) == [MemberEvent(ch) EXCEPT !.scope = "named", !.to = {u}]

ChannelRemoved(ch, u) == [Self(ch, u) EXCEPT !.dropSubs = u]

Typing(ch, u) == [MemberEvent(ch) EXCEPT !.subscribed = TRUE, !.exclude = u]

\* The announcements that carry no sequence number and change no membership.
Hints == {MemberEvent(ch) : ch \in Channels}
           \cup {Self(ch, u) : ch \in Chans, u \in Users}

\* Fault: a membership cache nobody invalidates.
AudienceCached(ev) == IF ev.scope = "named" THEN ev.to ELSE InitialMembers[ev.ch]

Audience(ev) ==
  CASE ev.scope = "members"  -> members[ev.ch]
    [] ev.scope = "verified" -> ev.to \cap members[ev.ch]
    [] ev.scope = "named"    -> ev.to

NoEvent == MemberEvent(NoChannel)
Idle    == [pc |-> "idle", ev |-> NoEvent, recipients |-> {}, seq |-> 0, left |-> {}]

\* A full queue drops, without a word to anybody.
enqueue(ev) == events' = IF Len(events) < EventQueue THEN Append(events, ev) ELSE events
-------------------------------------------------------------------------------
Init ==
  /\ members = InitialMembers
  /\ handler = [h \in Handlers |-> <<>>]
  /\ events  = <<>>
  /\ lock    = "free"
  /\ disp    = Idle
  /\ buffer  = [ch \in Channels |-> NoBuffer]
  /\ phase   = [s \in Sockets |-> "none"]
  /\ alive   = [s \in Sockets |-> FALSE]
  /\ owner   = [s \in Sockets |-> NoUser]
  /\ cand    = [s \in Sockets |-> [ch \in Channels |-> NoClaim]]
  /\ todo    = [s \in Sockets |-> [ch \in Channels |-> {}]]
  /\ checked = [s \in Sockets |-> <<>>]
  /\ out     = [s \in Sockets |-> <<>>]
  /\ resync  = [s \in Sockets |-> {}]
  /\ subs    = [s \in Sockets |-> {}]
  /\ pump    = [s \in Sockets |-> "flush"]
  /\ owed    = {}
  /\ used    = [commits |-> 0, hints |-> 0, changes |-> 0, dials |-> 0, frames |-> 0]
  /\ sent    = [s \in Sockets |-> [ch \in Channels |-> {}]]
  /\ promise = [s \in Sockets |-> [ch \in Channels |-> 0]]
  /\ told    = [ch \in Channels |-> <<>>]
  /\ fenced  = [ch \in Channels |-> {}]

-------------------------------------------------------------------------------
(* HTTP handlers: a write commits, and only then are its events announced, *)
(* one enqueue at a time.                                                  *)

Spend(field, bound) == used[field] < bound /\ used' = [used EXCEPT ![field] = @ + 1]

\* A message is sent, edited or deleted, or a topic changes.
CommitOrdered(h, ch) ==
  /\ handler[h] = <<>>
  /\ Spend("commits", MaxCommits)
  /\ handler' = [handler EXCEPT ![h] = <<Ordered(ch)>>]
  /\ UNCHANGED <<members, events, lock, disp, buffer, sockets, history>>

\* A read position, a call, an MLS commit or a welcome.
CommitHint(h, ev) ==
  /\ handler[h] = <<>>
  /\ Spend("hints", MaxHints)
  /\ handler' = [handler EXCEPT ![h] = <<ev>>]
  /\ UNCHANGED <<members, events, lock, disp, buffer, sockets, history>>

\* The two announcements that need a read back from the database first are
\* skipped, with a log line, when that read fails.
Announcements(first, second) ==
  {<<first, second>>} \cup (IF StoreMayFail THEN {<<second>>} ELSE {})

AddChannelMember(h, ch, u) ==
  /\ handler[h] = <<>>
  /\ u \notin members[ch]
  /\ Spend("changes", MaxChanges)
  /\ members' = [members EXCEPT ![ch] = @ \cup {u}]
  /\ \E a \in Announcements(ChannelCreated(ch, u), Ordered(ch)) :
       handler' = [handler EXCEPT ![h] = a]
  /\ fenced' = [fenced EXCEPT ![ch] = @ \ {u}]
  /\ UNCHANGED <<events, lock, disp, buffer, sockets, sent, promise, told>>

\* ErrLastMember keeps a channel from being emptied.
RemoveChannelMember(h, ch, u) ==
  /\ handler[h] = <<>>
  /\ u \in members[ch] /\ members[ch] # {u}
  /\ Spend("changes", MaxChanges)
  /\ members' = [members EXCEPT ![ch] = @ \ {u}]
  /\ \E a \in Announcements(MemberRemoved(ch, u), ChannelRemoved(ch, u)) :
       handler' = [handler EXCEPT ![h] = a]
  /\ UNCHANGED <<events, lock, disp, buffer, sockets, history>>

Announce(h) ==
  /\ handler[h] # <<>>
  /\ enqueue(Head(handler[h]))
  /\ handler' = [handler EXCEPT ![h] = Tail(@)]
  /\ UNCHANGED <<members, lock, disp, buffer, sockets, history, used>>
-------------------------------------------------------------------------------
(* The dispatcher: dispatchLoop, deliver, publish and sendLocked.          *)

\* Takes an event off the queue, and drops the subscriptions of a removed
\* user before anything else.  Only socketsFor needs g.mu for that.
Dequeue ==
  /\ disp.pc = "idle"
  /\ events # <<>>
  /\ LET ev == Head(events) IN
       /\ ev.dropSubs # NoUser => lock = "free"
       /\ disp' = [Idle EXCEPT !.pc = "count", !.ev = ev]
       /\ subs' = [s \in Sockets |->
                     IF s \in Registered /\ owner[s] = ev.dropSubs
                       THEN subs[s] \ {ev.ch} ELSE subs[s]]
       /\ fenced' = [ch \in Channels |->
                       IF ch = ev.ch /\ ev.dropSubs \in Users \ members[ch]
                         THEN fenced[ch] \cup {ev.dropSubs} ELSE fenced[ch]]
  /\ events' = Tail(events)
  /\ UNCHANGED <<members, handler, lock, buffer, phase, alive, owner, cand, todo,
                 checked, out, resync, pump, owed, sent, promise, told, used>>

\* connectedUsers: nobody connected, nobody to ask the database about.
CountConnected ==
  /\ disp.pc = "count"
  /\ lock = "free"
  /\ disp' = [disp EXCEPT !.pc = IF Registered = {} THEN "publish" ELSE "audience"]
  /\ UNCHANGED <<members, handler, events, lock, buffer, sockets, history, used>>

ResolveAudience ==
  /\ disp.pc = "audience"
  /\ disp' = [disp EXCEPT !.pc = "publish", !.recipients = Audience(disp.ev)]
  /\ UNCHANGED <<members, handler, events, lock, buffer, sockets, history, used>>

\* The read fails.  An ordered event is published to nobody, so that it keeps
\* its place in the replay buffer; any other is given up.  A named audience is
\* not read from the database and cannot fail.
ResolveAudienceFails ==
  /\ StoreMayFail
  /\ disp.pc = "audience"
  /\ disp.ev.scope # "named"
  /\ disp' = IF disp.ev.ordered THEN [disp EXCEPT !.pc = "publish"] ELSE Idle
  /\ UNCHANGED <<members, handler, events, lock, buffer, sockets, history, used>>

\* publish takes g.mu and, for an ordered event, assigns the number and fills
\* the buffer; the sockets of the audience are then served one by one.
Publish ==
  /\ disp.pc = "publish"
  /\ lock = "free"
  /\ LET ev  == disp.ev
         seq == IF ev.ordered THEN nextSeq(buffer[ev.ch]) ELSE 0
     IN  /\ disp' = [disp EXCEPT !.pc = "send", !.seq = seq,
                       !.left = {s \in Registered :
                                   owner[s] \in disp.recipients \ {ev.exclude}}]
         /\ buffer' = IF ev.ordered
                        THEN [buffer EXCEPT ![ev.ch] = store(@, seq)] ELSE buffer
         /\ told'   = IF ev.ordered
                        THEN [told EXCEPT ![ev.ch] = Append(@, disp.recipients)] ELSE told
  /\ lock' = "dispatch"
  /\ UNCHANGED <<members, handler, events, sockets, sent, promise, fenced, used>>

\* Fault: a drop nobody is told about.
deliverSilently(s, frame) ==
  /\ out' = IF Len(out[s]) < OutboundBuffer
              THEN [out EXCEPT ![s] = Append(@, frame)] ELSE out
  /\ owed' = owed

\* Fault: the sender waits for room.
deliverBlocking(s, frame) ==
  /\ Len(out[s]) < OutboundBuffer
  /\ out' = [out EXCEPT ![s] = Append(@, frame)]
  /\ owed' = owed

\* socket.deliver: a full outbound queue drops the frame, and the channel will
\* be marked for a resync.  The failed send and the mark are two steps.
deliver(s, frame) ==
  IF Len(out[s]) < OutboundBuffer
    THEN out' = [out EXCEPT ![s] = Append(@, frame)] /\ owed' = owed
    ELSE owed' = {<<s, frame.ch>>} /\ out' = out

MarkResync ==
  /\ \E s \in Sockets, ch \in Chans :
       /\ <<s, ch>> \in owed
       /\ resync' = [resync EXCEPT ![s] = @ \cup {ch}]
  /\ owed' = {}
  /\ UNCHANGED <<server, phase, alive, owner, cand, todo, checked, out, subs, pump,
                 history, used>>

SendTo(s) ==
  /\ disp.pc = "send" /\ s \in disp.left /\ owed = {}
  /\ IF disp.ev.subscribed /\ disp.ev.ch \notin subs[s]
       THEN UNCHANGED <<out, owed>>
       ELSE deliver(s, Frame(disp.ev.ch, disp.seq))
  /\ disp' = [disp EXCEPT !.left = @ \ {s}]
  /\ UNCHANGED <<members, handler, events, lock, buffer, phase, alive, owner, cand,
                 todo, checked, resync, subs, pump, history, used>>

SendDone ==
  /\ disp.pc = "send" /\ disp.left = {} /\ owed = {}
  /\ disp' = Idle
  /\ lock' = "free"
  /\ UNCHANGED <<members, handler, events, buffer, sockets, history, used>>

\* pruneReplay, of the sweep: any prefix of a window may have grown too old.
PruneReplay ==
  /\ lock = "free"
  /\ \E old \in [Channels -> 0 .. ReplayMaxEvents] :
       /\ \A ch \in Channels : old[ch] <= Len(buffer[ch].entries)
       /\ buffer' = [ch \in Channels |-> prune(buffer[ch], old[ch])]
  /\ UNCHANGED <<members, handler, events, lock, disp, sockets, history, used>>
-------------------------------------------------------------------------------
(* The read loop of a socket: serve, handleHello, resolveResume,           *)
(* registerAndReplay, the frames of an open socket, deregister.            *)

Open(s, u) ==
  /\ phase[s] = "none"
  /\ Spend("dials", MaxDials)
  /\ phase' = [phase EXCEPT ![s] = "hello"]
  /\ alive' = [alive EXCEPT ![s] = TRUE]
  /\ owner' = [owner EXCEPT ![s] = u]
  /\ UNCHANGED <<server, cand, todo, checked, out, resync, subs, pump, owed, history>>

\* resolveResume: the client names channels and the last number it processed
\* in each.  The first MaxResumeChannels of them are checked against the
\* membership table; a channel that is refused here is answered with resync.
\* The numbers are the client's claim and may be any number at all.
ResolveResume(s, asked, claim) ==
  /\ phase[s] = "hello"
  /\ \E looked \in SUBSET asked, failed \in SUBSET (IF StoreMayFail THEN asked ELSE {}) :
       /\ Cardinality(looked) <= MaxResumeChannels
       /\ looked # asked => Cardinality(looked) = MaxResumeChannels
       /\ cand' = [cand EXCEPT ![s] =
                     [ch \in Channels |->
                        IF ch \in looked \ failed /\ owner[s] \in members[ch]
                          THEN claim[ch] ELSE NoClaim]]
  /\ phase' = [phase EXCEPT ![s] = "resolved"]
  /\ UNCHANGED <<server, alive, owner, todo, checked, out, resync, subs, pump, owed,
                 history, used>>

\* Which candidates registerAndReplay can satisfy; the others are resync.
Resumes(s, ch) ==
  /\ cand[s][ch] # NoClaim
  /\ buffer[ch].lastSeq > 0
  /\ canResume(buffer[ch], cand[s][ch])

\* registerAndReplay takes g.mu and queues hello_ok.  A socket is owed what it
\* was promised to be resumed from, and otherwise what happens from here on.
Register(s) ==
  /\ phase[s] = "resolved"
  /\ lock = "free"
  /\ lock' = "replay"
  /\ phase' = [phase EXCEPT ![s] = "replay"]
  /\ out'   = [out EXCEPT ![s] = Append(@, Reply)]
  /\ todo'  = [todo EXCEPT ![s] =
                 [ch \in Channels |->
                    IF Resumes(s, ch) THEN after(buffer[ch], cand[s][ch]) ELSE {}]]
  /\ promise' = [promise EXCEPT ![s] =
                   [ch \in Channels |->
                      IF Resumes(s, ch) THEN cand[s][ch] ELSE buffer[ch].lastSeq]]
  /\ UNCHANGED <<members, handler, events, disp, buffer, alive, owner, cand, checked,
                 resync, subs, pump, owed, sent, told, fenced, used>>

\* One replayed frame.  A channel is replayed in the order of its window; the
\* order between channels is that of the client's list.
Replay(s, ch) ==
  /\ phase[s] = "replay" /\ owed = {}
  /\ \E i \in todo[s][ch] :
       /\ \A j \in todo[s][ch] : i <= j
       /\ deliver(s, Frame(ch, buffer[ch].entries[i]))
       /\ todo' = [todo EXCEPT ![s][ch] = @ \ {i}]
  /\ UNCHANGED <<server, phase, alive, owner, cand, checked, resync, subs, pump,
                 history, used>>

\* The socket joins g.sockets and g.mu is released.
ReplayDone(s) ==
  /\ phase[s] = "replay" /\ owed = {}
  /\ \A ch \in Channels : todo[s][ch] = {}
  /\ phase' = [phase EXCEPT ![s] = "up"]
  /\ lock'  = "free"
  /\ UNCHANGED <<members, handler, events, disp, buffer, alive, owner, cand, todo,
                 checked, out, resync, subs, pump, owed, history, used>>

\* A socket's own reply: a full queue drops it and nothing is owed for it.
queue(s) == out' = IF Len(out[s]) < OutboundBuffer
                     THEN [out EXCEPT ![s] = Append(@, Reply)] ELSE out

\* requireMember: a frame is admitted, or answered with an error.
CheckMember(s, op, ch) ==
  /\ phase[s] = "up" /\ checked[s] = <<>>
  /\ Spend("frames", MaxFrames)
  /\ \/ /\ owner[s] \in members[ch]
        /\ checked' = [checked EXCEPT ![s] = <<op, ch>>]
        /\ UNCHANGED out
     \/ /\ StoreMayFail \/ owner[s] \notin members[ch]
        /\ queue(s)
        /\ UNCHANGED checked
  /\ UNCHANGED <<server, phase, alive, owner, cand, todo, resync, subs, pump, owed,
                 history>>

\* handleSubscribe and handleUnsubscribe, after their check.
FinishSubscribe(s) ==
  /\ checked[s] # <<>> /\ checked[s][1] \in {"subscribe", "unsubscribe"}
  /\ subs' = [subs EXCEPT ![s] = IF checked[s][1] = "subscribe"
                                   THEN @ \cup {checked[s][2]} ELSE @ \ {checked[s][2]}]
  /\ queue(s)
  /\ checked' = [checked EXCEPT ![s] = <<>>]
  /\ UNCHANGED <<server, phase, alive, owner, cand, todo, resync, pump, owed,
                 history, used>>

\* handleTyping, after its check.
FinishTyping(s) ==
  /\ checked[s] # <<>> /\ checked[s][1] = "typing"
  /\ enqueue(Typing(checked[s][2], owner[s]))
  /\ checked' = [checked EXCEPT ![s] = <<>>]
  /\ UNCHANGED <<members, handler, lock, disp, buffer, phase, alive, owner, cand, todo,
                 out, resync, subs, pump, owed, history, used>>

\* The read loop ends: before hello, or on an open socket.  A socket that is
\* shut down during its handshake still registers, and leaves afterwards.  The
\* slot it used is as good as new.
Deregister(s) ==
  /\ phase[s] \in {"hello", "up"} /\ ~alive[s] /\ checked[s] = <<>>
  /\ lock = "free"
  /\ phase'   = [phase EXCEPT ![s] = "none"]
  /\ owner'   = [owner EXCEPT ![s] = NoUser]
  /\ cand'    = [cand EXCEPT ![s] = [ch \in Channels |-> NoClaim]]
  /\ out'     = [out EXCEPT ![s] = <<>>]
  /\ resync'  = [resync EXCEPT ![s] = {}]
  /\ subs'    = [subs EXCEPT ![s] = {}]
  /\ pump'    = [pump EXCEPT ![s] = "flush"]
  /\ sent'    = [sent EXCEPT ![s] = [ch \in Channels |-> {}]]
  /\ promise' = [promise EXCEPT ![s] = [ch \in Channels |-> 0]]
  /\ UNCHANGED <<server, alive, todo, checked, owed, told, fenced, used>>
-------------------------------------------------------------------------------
(* The write pump of a socket.                                             *)

\* flushResync: the debts are cleared and their frames written, ahead of the
\* queue.  A client that is told to resync reads everything up to now from the
\* REST history.
FlushResync(s) ==
  /\ alive[s] /\ pump[s] = "flush"
  /\ promise' = [promise EXCEPT ![s] =
                   [ch \in Channels |->
                      IF ch \in resync[s] THEN buffer[ch].lastSeq ELSE @[ch]]]
  /\ resync' = [resync EXCEPT ![s] = {}]
  /\ pump'   = [pump EXCEPT ![s] = "select"]
  /\ UNCHANGED <<server, phase, alive, owner, cand, todo, checked, out, subs, owed,
                 sent, told, fenced, used>>

WriteFrame(s) ==
  /\ alive[s] /\ pump[s] = "select" /\ out[s] # <<>>
  /\ LET frame == Head(out[s]) IN
       sent' = IF frame.seq = 0 THEN sent
               ELSE [sent EXCEPT ![s][frame.ch] = @ \cup {frame.seq}]
  /\ out'  = [out EXCEPT ![s] = Tail(@)]
  /\ pump' = [pump EXCEPT ![s] = "flush"]
  /\ UNCHANGED <<server, phase, alive, owner, cand, todo, checked, resync, subs, owed,
                 promise, told, fenced, used>>

\* Fault: the ticker does not start the loop over, so debts wait for a frame.
TickWithoutFlush(s) ==
  /\ alive[s] /\ pump[s] = "select"
  /\ UNCHANGED vars

\* The heartbeat ticker: a ping is written and the loop starts over.
Tick(s) ==
  /\ alive[s] /\ pump[s] = "select"
  /\ pump' = [pump EXCEPT ![s] = "flush"]
  /\ UNCHANGED <<server, phase, alive, owner, cand, todo, checked, out, resync, subs,
                 owed, history, used>>

\* The write pump ends: a write failed, or it noticed that shutdown was called
\* (a heartbeat timeout, the sweep, a protocol error, the client).  Its select
\* may still take a frame or two before it notices.
Shutdown(s) ==
  /\ phase[s] # "none" /\ alive[s]
  /\ alive' = [alive EXCEPT ![s] = FALSE]
  /\ UNCHANGED <<server, phase, owner, cand, todo, checked, out, resync, subs, pump,
                 owed, history, used>>
-------------------------------------------------------------------------------
HandlerStep ==
  \E h \in Handlers :
    \/ Announce(h)
    \/ \E ch \in Channels :
         \/ CommitOrdered(h, ch)
         \/ \E u \in Users : AddChannelMember(h, ch, u) \/ RemoveChannelMember(h, ch, u)
    \/ \E ev \in Hints : CommitHint(h, ev)

DispatchStep ==
  \/ Dequeue \/ CountConnected \/ ResolveAudience \/ ResolveAudienceFails \/ Publish
  \/ \E s \in Sockets : SendTo(s)
  \/ SendDone

ReadStep(s) ==
  \/ \E u \in Users : Open(s, u)
  \/ \E asked \in SUBSET Channels : \E claim \in [asked -> 0 .. MaxCommits] :
       ResolveResume(s, asked, claim)
  \/ Register(s) \/ ReplayDone(s) \/ Deregister(s)
  \/ \E ch \in Channels : Replay(s, ch)
  \/ \E op \in {"subscribe", "unsubscribe", "typing"}, ch \in Channels :
       CheckMember(s, op, ch)
  \/ FinishSubscribe(s) \/ FinishTyping(s)

PumpStep(s) == FlushResync(s) \/ WriteFrame(s) \/ Tick(s)

Next ==
  \/ HandlerStep \/ DispatchStep \/ MarkResync \/ PruneReplay
  \/ \E s \in Sockets : ReadStep(s) \/ PumpStep(s) \/ Shutdown(s)

Spec == Init /\ [][Next]_vars

\* Every critical section of g.mu ends, the dispatcher and the pumps are
\* goroutines that run, and the ticker of a pump fires; nothing obliges a
\* client, a handler or the sweep to act.
Fairness ==
  /\ WF_vars(DispatchStep)
  /\ WF_vars(MarkResync)
  /\ \A s \in Sockets :
       /\ WF_vars(ReplayDone(s) \/ \E ch \in Channels : Replay(s, ch))
       /\ WF_vars(FlushResync(s))
       /\ WF_vars(Tick(s))

FairSpec == Spec /\ Fairness
-------------------------------------------------------------------------------
(* Properties                                                              *)

\* The state of the gateway is well formed, and neither the event queue nor a
\* socket's outbound queue ever exceeds its capacity (enqueue, deliver, queue).
TypeOK ==
  /\ members \in [Channels -> SUBSET Users]
  /\ handler \in [Handlers -> Seq(Events)]
  /\ events \in Seq(Events) /\ Len(events) <= EventQueue
  /\ lock \in {"free", "dispatch", "replay"}
  /\ disp \in [pc : {"idle", "count", "audience", "publish", "send"}, ev : Events,
               recipients : SUBSET Users, seq : Nat, left : SUBSET Sockets]
  /\ buffer \in [Channels -> Buffer]
  /\ phase \in [Sockets -> {"none", "hello", "resolved", "replay", "up"}]
  /\ alive \in [Sockets -> BOOLEAN]
  /\ owner \in [Sockets -> Users \cup {NoUser}]
  /\ cand \in [Sockets -> [Channels -> Nat \cup {NoClaim}]]
  /\ todo \in [Sockets -> [Channels -> SUBSET Nat]]
  /\ checked \in [Sockets -> {<<>>} \cup ({"subscribe", "unsubscribe", "typing"} \X Channels)]
  /\ out \in [Sockets -> Seq(Frames)] /\ \A s \in Sockets : Len(out[s]) <= OutboundBuffer
  /\ resync \in [Sockets -> SUBSET Chans]
  /\ subs \in [Sockets -> SUBSET Channels]
  /\ pump \in [Sockets -> {"flush", "select"}]
  /\ owed \in SUBSET (Sockets \X Chans)
  /\ used \in [commits : Nat, hints : Nat, changes : Nat, dials : Nat, frames : Nat]
  /\ sent \in [Sockets -> [Channels -> SUBSET Nat]]
  /\ promise \in [Sockets -> [Channels -> Nat]]
  /\ told \in [Channels -> Seq(SUBSET Users)]
  /\ fenced \in [Channels -> SUBSET Users]

\* The numbers a channel issues stay consecutive in its window through every
\* store, overflow and prune, and every resume the buffer would accept replays
\* exactly what the client lacks (replay.go: canResume and after agree).
WindowIsSound ==
  \A ch \in Channels :
    /\ Contiguous(buffer[ch])
    /\ \A seq \in 0 .. buffer[ch].lastSeq : ResumeIsComplete(buffer[ch], seq)

Queued(s, ch) == {out[s][i].seq : i \in {j \in DOMAIN out[s] : out[s][j].ch = ch}} \ {0}

\* A frame that publish has begun to send and has not reached s yet.
Coming(s, ch) == IF disp.pc = "send" /\ s \in disp.left /\ disp.ev.ch = ch
                   THEN {disp.seq} ELSE {}

\* Written, waiting to be written, about to be queued, or owed a resync.
Accounted(s, ch, seq) ==
  \/ seq \in sent[s][ch] \cup Queued(s, ch) \cup Coming(s, ch)
  \/ ch \in resync[s]
  \/ <<s, ch>> \in owed

\* An open socket is never left silently short of an event that was sent to
\* its user: each one above what it was promised is accounted for, across
\* replay, live delivery, drops and flushes (deliver in conn.go,
\* registerAndReplay and publish under one lock).
NoSilentGap ==
  \A s \in Registered, ch \in Channels :
    \A seq \in (promise[s][ch] + 1) .. buffer[ch].lastSeq :
      owner[s] \in told[ch][seq] => Accounted(s, ch, seq)

\* The same, of every event of a channel the socket's user is a member of:
\* registerAndReplay's "there is no window between the two where an event
\* could fall through".
NothingFallsThrough ==
  \A s \in Registered, ch \in Channels :
    \A seq \in (promise[s][ch] + 1) .. buffer[ch].lastSeq :
      owner[s] \in members[ch] => Accounted(s, ch, seq)

\* Replayed and live events of a channel reach the connection in the order of
\* their numbers and none twice, however the replay, the dispatcher and the
\* pump interleave: what is written precedes what is queued, and the queue is
\* ascending.
InOrder ==
  \A s \in Sockets, ch \in Channels :
    /\ \A seq \in Queued(s, ch), old \in sent[s][ch] : old < seq
    /\ \A i, j \in DOMAIN out[s] :
         (i < j /\ out[s][i].ch = ch /\ out[s][j].ch = ch
            /\ out[s][i].seq # 0 /\ out[s][j].seq # 0) => out[s][i].seq < out[s][j].seq

\* Delivery as a client sees it: nothing missing without a word, nothing out of
\* order, and every queue within its limit.
DeliveryIsSound == TypeOK /\ NoSilentGap /\ InOrder

\* Once the dispatcher has reached the announcement of a removal, nothing it
\* publishes to the members goes to the removed user until they are added
\* again (MemberRemoved: the audience is read after the removal committed).
RemovalIsFence ==
  (disp.pc \in {"publish", "send"} /\ disp.ev.scope # "named" /\ disp.ev.ch \in Channels)
     => disp.recipients \cap fenced[disp.ev.ch] = {}

\* A resync that is owed is written, unless the socket ends first: no order of
\* drop, mark, flush and ticker leaves the debt standing (writePump).
ResyncIsTold ==
  \A s \in Sockets, ch \in Channels :
    (ch \in resync[s] /\ alive[s]) ~> (ch \notin resync[s] \/ ~alive[s])

\* No step that holds g.mu waits for a socket, so the lock always comes free:
\* a client that does not read cannot stall the gateway (deliver and queue).
LockComesFree == lock # "free" ~> lock = "free"
===============================================================================
