---------------------------- MODULE GatewayProofs ----------------------------
(***************************************************************************)
(* Proofs about Gateway, for every set of channels, users, sockets and     *)
(* handlers and every capacity and bound.                                  *)
(***************************************************************************)
EXTENDS Gateway, SequenceTheorems, TLAPS

-------------------------------------------------------------------------------
(* What the replay buffer's operations preserve, for every window size.    *)

\* A channel without a buffer has an empty window.
LEMMA NoBufferFacts == NoBuffer \in Buffer /\ Contiguous(NoBuffer)
BY ReplayMaxEventsAssumption DEF NoBuffer, Buffer, Contiguous

\* A buffer put together from a counter and a consecutive window.
LEMMA BufferFacts ==
  ASSUME NEW last \in Nat, NEW es \in Seq(Nat),
         Len(es) <= ReplayMaxEvents, Len(es) <= last,
         \A i \in 1 .. Len(es) : es[i] = last - Len(es) + i
  PROVE  LET b == [lastSeq |-> last, entries |-> es]
         IN  b \in Buffer /\ b.lastSeq = last /\ Contiguous(b)
<1>1. [lastSeq |-> last, entries |-> es] \in Buffer
  BY DEF Buffer
<1>2. /\ [lastSeq |-> last, entries |-> es].lastSeq = last
      /\ [lastSeq |-> last, entries |-> es].entries = es
  OBVIOUS
<1> QED BY <1>1, <1>2, Zenon DEF Contiguous

\* A suffix of a sequence, by position.
LEMMA SuffixFacts ==
  ASSUME NEW es \in Seq(Nat), NEW k \in 0 .. Len(es)
  PROVE  /\ SubSeq(es, k + 1, Len(es)) \in Seq(Nat)
         /\ Len(SubSeq(es, k + 1, Len(es))) = Len(es) - k
         /\ \A i \in 1 .. Len(es) - k : SubSeq(es, k + 1, Len(es))[i] = es[k + i]
<1>1. Len(es) \in Nat /\ k \in Nat /\ k + 1 \in Int /\ Len(es) \in Int /\ k <= Len(es)
  BY LenProperties
<1>2. \A i \in (k + 1) .. Len(es) : es[i] \in Nat
  BY <1>1, ElementOfSeq
<1>3. /\ SubSeq(es, k + 1, Len(es)) \in Seq(Nat)
      /\ Len(SubSeq(es, k + 1, Len(es))) =
           IF k + 1 <= Len(es) THEN Len(es) - (k + 1) + 1 ELSE 0
      /\ \A i \in 1 .. Len(es) - (k + 1) + 1 :
           SubSeq(es, k + 1, Len(es))[i] = es[(k + 1) + i - 1]
  BY <1>1, <1>2, SubSeqProperties
<1>4. Len(SubSeq(es, k + 1, Len(es))) = Len(es) - k
  BY <1>1, <1>3
<1>5. ASSUME NEW i \in 1 .. Len(es) - k
      PROVE  SubSeq(es, k + 1, Len(es))[i] = es[k + i]
  <2>1. i \in 1 .. Len(es) - (k + 1) + 1 /\ (k + 1) + i - 1 = k + i
    BY <1>1
  <2>2. SubSeq(es, k + 1, Len(es))[i] = es[(k + 1) + i - 1]
    BY <1>3, <2>1
  <2> QED BY <2>1, <2>2
<1> QED BY <1>3, <1>4, <1>5

\* What store keeps of the window: all of it, or all but the oldest entries.
LEMMA NewestFacts ==
  ASSUME NEW es \in Seq(Nat), NEW n \in Nat \ {0}
  PROVE  \E k \in 0 .. Len(es) :
           /\ Len(es) - k <= n
           /\ LastEntries(es, n) = SubSeq(es, k + 1, Len(es))
<1>0. Len(es) \in Nat
  BY LenProperties
<1>1. CASE Len(es) > n
  <2>1. LastEntries(es, n) = SubSeq(es, (Len(es) - n) + 1, Len(es))
    BY <1>1 DEF LastEntries
  <2>2. Len(es) - n \in 0 .. Len(es) /\ Len(es) - (Len(es) - n) <= n
    BY <1>0, <1>1
  <2> QED BY <2>1, <2>2
<1>2. CASE ~(Len(es) > n)
  <2>1. LastEntries(es, n) = SubSeq(es, 0 + 1, Len(es))
    BY <1>2 DEF LastEntries
  <2>2. 0 \in 0 .. Len(es) /\ Len(es) - 0 <= n
    BY <1>0, <1>2
  <2> QED BY <2>1, <2>2
<1> QED BY <1>1, <1>2

\* A suffix of consecutive numbers is consecutive and ends where they end.
LEMMA SuffixContiguous ==
  ASSUME NEW es \in Seq(Nat), NEW last \in Nat, NEW k \in 0 .. Len(es),
         \A i \in 1 .. Len(es) : es[i] = last - Len(es) + i
  PROVE  \A i \in 1 .. Len(SubSeq(es, k + 1, Len(es))) :
           SubSeq(es, k + 1, Len(es))[i] = last - Len(SubSeq(es, k + 1, Len(es))) + i
<1>0. Len(es) \in Nat /\ k \in Nat /\ k <= Len(es)
  BY LenProperties
<1>1. Len(SubSeq(es, k + 1, Len(es))) = Len(es) - k
  BY SuffixFacts
<1> SUFFICES ASSUME NEW i \in 1 .. Len(es) - k
             PROVE  SubSeq(es, k + 1, Len(es))[i] = last - (Len(es) - k) + i
  BY <1>1
<1>2. SubSeq(es, k + 1, Len(es))[i] = es[k + i]
  BY SuffixFacts
<1>3. k + i \in 1 .. Len(es)
  BY <1>0
<1>4. es[k + i] = last - Len(es) + (k + i)
  BY <1>3
<1> QED BY <1>0, <1>2, <1>4

\* Appending the next number to a consecutive sequence keeps it consecutive.
LEMMA AppendContiguous ==
  ASSUME NEW es \in Seq(Nat), NEW last \in Nat,
         \A i \in 1 .. Len(es) : es[i] = last - Len(es) + i
  PROVE  /\ Append(es, last + 1) \in Seq(Nat)
         /\ Len(Append(es, last + 1)) = Len(es) + 1
         /\ \A i \in 1 .. Len(es) + 1 :
              Append(es, last + 1)[i] = (last + 1) - (Len(es) + 1) + i
<1>0. Len(es) \in Nat /\ last + 1 \in Nat
  BY LenProperties
<1>1. /\ Append(es, last + 1) \in Seq(Nat)
      /\ Len(Append(es, last + 1)) = Len(es) + 1
      /\ \A i \in 1 .. Len(es) : Append(es, last + 1)[i] = es[i]
      /\ Append(es, last + 1)[Len(es) + 1] = last + 1
  BY <1>0, AppendProperties
<1>2. ASSUME NEW i \in 1 .. Len(es) + 1
      PROVE  Append(es, last + 1)[i] = (last + 1) - (Len(es) + 1) + i
  <2>1. CASE i \in 1 .. Len(es)
    <3>1. Append(es, last + 1)[i] = last - Len(es) + i
      BY <2>1, <1>1
    <3> QED BY <3>1, <2>1, <1>0
  <2>2. CASE i = Len(es) + 1
    BY <2>2, <1>0, <1>1
  <2> QED BY <2>1, <2>2, <1>0, <1>2
<1> QED BY <1>1, <1>2

\* nextSeq and store keep the window consecutive and ending at the counter,
\* whether or not the oldest entry falls out (replayBuffer.store).
LEMMA StoreFacts ==
  ASSUME NEW b \in Buffer, Contiguous(b)
  PROVE  /\ nextSeq(b) \in Nat \ {0}
         /\ nextSeq(b) = b.lastSeq + 1
         /\ store(b, nextSeq(b)) \in Buffer
         /\ store(b, nextSeq(b)).lastSeq = nextSeq(b)
         /\ Contiguous(store(b, nextSeq(b)))
<1>1. /\ b.lastSeq \in Nat /\ b.entries \in Seq(Nat) /\ ReplayMaxEvents \in Nat \ {0}
      /\ Len(b.entries) \in Nat /\ Len(b.entries) <= b.lastSeq
      /\ \A i \in 1 .. Len(b.entries) : b.entries[i] = b.lastSeq - Len(b.entries) + i
  BY ReplayMaxEventsAssumption, LenProperties DEF Buffer, Contiguous
<1>2. nextSeq(b) = b.lastSeq + 1 /\ nextSeq(b) \in Nat \ {0}
  BY <1>1 DEF nextSeq
<1>3. PICK seq \in Nat : seq = b.lastSeq + 1
  BY <1>1
<1>4. PICK as : as = Append(b.entries, seq)
  OBVIOUS
<1>5. as \in Seq(Nat) /\ Len(as) = Len(b.entries) + 1
  BY <1>1, <1>3, <1>4, AppendContiguous
<1>6. \A i \in 1 .. Len(as) : as[i] = seq - Len(as) + i
  <2>1. \A i \in 1 .. Len(b.entries) + 1 :
          Append(b.entries, b.lastSeq + 1)[i] = (b.lastSeq + 1) - (Len(b.entries) + 1) + i
    BY <1>1, AppendContiguous
  <2> QED BY <2>1, <1>3, <1>4, <1>5
<1>7. PICK k \in 0 .. Len(as) :
        /\ Len(as) - k <= ReplayMaxEvents
        /\ LastEntries(as, ReplayMaxEvents) = SubSeq(as, k + 1, Len(as))
  BY <1>1, <1>5, NewestFacts
<1>8. PICK ns : ns = SubSeq(as, k + 1, Len(as))
  OBVIOUS
<1>9. ns \in Seq(Nat) /\ Len(ns) = Len(as) - k
  BY <1>5, <1>8, SuffixFacts
<1>10. \A i \in 1 .. Len(ns) : ns[i] = seq - Len(ns) + i
  BY <1>5, <1>6, <1>8, SuffixContiguous
<1>11. store(b, nextSeq(b)) = [lastSeq |-> seq, entries |-> ns]
  BY <1>2, <1>3, <1>4, <1>7, <1>8 DEF store
<1>12. Len(ns) <= ReplayMaxEvents /\ Len(ns) <= seq
  BY <1>1, <1>3, <1>5, <1>7, <1>9
<1>13. LET r == [lastSeq |-> seq, entries |-> ns]
       IN  r \in Buffer /\ r.lastSeq = seq /\ Contiguous(r)
  BY <1>9, <1>10, <1>12, BufferFacts
<1> QED BY <1>2, <1>3, <1>11, <1>13

\* prune keeps what is left of the window consecutive, and the counter
\* (replayBuffer.prune: the counter outlives the entries).
LEMMA PruneFacts ==
  ASSUME NEW b \in Buffer, Contiguous(b), NEW k \in 0 .. Len(b.entries)
  PROVE  /\ prune(b, k) \in Buffer
         /\ prune(b, k).lastSeq = b.lastSeq
         /\ Contiguous(prune(b, k))
<1>1. /\ b.lastSeq \in Nat /\ b.entries \in Seq(Nat) /\ ReplayMaxEvents \in Nat
      /\ Len(b.entries) \in Nat /\ Len(b.entries) <= b.lastSeq
      /\ Len(b.entries) <= ReplayMaxEvents
      /\ \A i \in 1 .. Len(b.entries) : b.entries[i] = b.lastSeq - Len(b.entries) + i
  BY ReplayMaxEventsAssumption, LenProperties DEF Buffer, Contiguous
<1>2. PICK ps : ps = SubSeq(b.entries, k + 1, Len(b.entries))
  OBVIOUS
<1>3. ps \in Seq(Nat) /\ Len(ps) = Len(b.entries) - k
  BY <1>1, <1>2, SuffixFacts
<1>4. \A i \in 1 .. Len(ps) : ps[i] = b.lastSeq - Len(ps) + i
  BY <1>1, <1>2, SuffixContiguous
<1>5. prune(b, k) = [lastSeq |-> b.lastSeq, entries |-> ps]
  BY <1>2 DEF prune
<1>6. Len(ps) <= ReplayMaxEvents /\ Len(ps) <= b.lastSeq
  BY <1>1, <1>3
<1>7. LET r == [lastSeq |-> b.lastSeq, entries |-> ps]
      IN  r \in Buffer /\ r.lastSeq = b.lastSeq /\ Contiguous(r)
  BY <1>1, <1>3, <1>4, <1>6, BufferFacts
<1> QED BY <1>5, <1>7

\* Whenever canResume says yes, after returns exactly the numbers the client
\* lacks: hello_ok never promises a replay the window cannot deliver.
THEOREM ResumeSound ==
  ASSUME NEW b \in Buffer, Contiguous(b), NEW seq \in Nat
  PROVE  ResumeIsComplete(b, seq)
<1> DEFINE es == b.entries
<1>1. /\ b.lastSeq \in Nat /\ es \in Seq(Nat) /\ Len(es) \in Nat /\ Len(es) <= b.lastSeq
      /\ DOMAIN es = 1 .. Len(es)
      /\ \A i \in 1 .. Len(es) : es[i] = b.lastSeq - Len(es) + i
  BY DEF Buffer, Contiguous
<1> SUFFICES ASSUME canResume(b, seq)
             PROVE  {es[i] : i \in after(b, seq)} = (seq + 1) .. b.lastSeq
  BY DEF ResumeIsComplete
<1>2. \A i \in after(b, seq) : es[i] \in (seq + 1) .. b.lastSeq
  BY <1>1 DEF after
<1>3. ASSUME NEW q \in (seq + 1) .. b.lastSeq
      PROVE  \E i \in after(b, seq) : es[i] = q
  <2>1. seq < b.lastSeq /\ es # <<>> /\ es[1] <= seq + 1
    BY <1>1, <1>3 DEF canResume
  <2>2. Len(es) > 0 /\ es[1] = b.lastSeq - Len(es) + 1
    BY <1>1, <2>1
  <2>3. q \in Nat /\ q <= b.lastSeq /\ q > seq /\ b.lastSeq - Len(es) + 1 <= q
    BY <1>1, <1>3, <2>1, <2>2
  <2>4. PICK i \in Int : i = q - b.lastSeq + Len(es)
    BY <1>1, <2>3
  <2>5. i \in 1 .. Len(es)
    BY <1>1, <2>3, <2>4
  <2>6. es[i] = q
    BY SMTT(30), <1>1, <2>3, <2>4, <2>5
  <2>7. i \in DOMAIN es /\ es[i] > seq
    BY <1>1, <2>3, <2>5, <2>6
  <2> QED BY <2>6, <2>7 DEF after
<1> QED BY <1>2, <1>3

-------------------------------------------------------------------------------
(* The replay windows.  Only publish and pruneReplay write them.           *)

BufferInv ==
  /\ buffer \in [Channels -> Buffer]
  /\ \A ch \in Channels : Contiguous(buffer[ch])

\* A gateway that starts has empty windows.
LEMMA BufferInit == Init => BufferInv
BY NoBufferFacts DEF Init, BufferInv

\* publish assigns the next number of one channel and stores it, or touches no
\* window at all.
LEMMA PublishKeepsBuffers == BufferInv /\ Publish => BufferInv'
<1> SUFFICES ASSUME BufferInv, Publish PROVE BufferInv'
  OBVIOUS
<1>1. CASE disp.ev.ordered
  <2>1. buffer' = [buffer EXCEPT ![disp.ev.ch] =
                     store(buffer[disp.ev.ch], nextSeq(buffer[disp.ev.ch]))]
    BY <1>1 DEF Publish
  <2>2. ASSUME NEW ch \in Channels
        PROVE  buffer'[ch] \in Buffer /\ Contiguous(buffer'[ch])
    <3>1. buffer[ch] \in Buffer /\ Contiguous(buffer[ch])
      BY DEF BufferInv
    <3>2. store(buffer[ch], nextSeq(buffer[ch])) \in Buffer
            /\ Contiguous(store(buffer[ch], nextSeq(buffer[ch])))
      BY <3>1, StoreFacts
    <3>3. \/ buffer'[ch] = buffer[ch]
          \/ buffer'[ch] = store(buffer[ch], nextSeq(buffer[ch]))
      BY <2>1 DEF BufferInv
    <3> QED BY <3>1, <3>2, <3>3
  <2>3. buffer' \in [Channels -> Buffer]
    BY <2>1, <2>2 DEF BufferInv
  <2> QED BY <2>2, <2>3 DEF BufferInv
<1>2. CASE ~disp.ev.ordered
  <2>1. buffer' = buffer
    BY <1>2 DEF Publish
  <2> QED BY <2>1 DEF BufferInv
<1> QED BY <1>1, <1>2

\* The sweep takes a prefix off each window.
LEMMA PruneKeepsBuffers == BufferInv /\ PruneReplay => BufferInv'
<1> SUFFICES ASSUME BufferInv, PruneReplay PROVE BufferInv'
  OBVIOUS
<1>1. PICK old \in [Channels -> 0 .. ReplayMaxEvents] :
        /\ \A ch \in Channels : old[ch] <= Len(buffer[ch].entries)
        /\ buffer' = [ch \in Channels |-> prune(buffer[ch], old[ch])]
  BY DEF PruneReplay
<1>2. ASSUME NEW ch \in Channels
      PROVE  prune(buffer[ch], old[ch]) \in Buffer /\ Contiguous(prune(buffer[ch], old[ch]))
  <2>1. buffer[ch] \in Buffer /\ Contiguous(buffer[ch])
    BY DEF BufferInv
  <2>2. old[ch] \in 0 .. Len(buffer[ch].entries)
    <3>1. buffer[ch].entries \in Seq(Nat) /\ Len(buffer[ch].entries) \in Nat
      BY <2>1, LenProperties DEF Buffer
    <3>2. old[ch] \in Nat
      BY ReplayMaxEventsAssumption
    <3> QED BY <1>1, <3>1, <3>2
  <2> QED BY <2>1, <2>2, PruneFacts
<1> QED BY <1>1, <1>2 DEF BufferInv

\* No other step writes a window.
LEMMA BufferStep == BufferInv /\ [Next]_vars => BufferInv'
<1> SUFFICES ASSUME BufferInv, [Next]_vars PROVE BufferInv'
  OBVIOUS
<1>1. CASE Publish
  BY <1>1, PublishKeepsBuffers
<1>2. CASE PruneReplay
  BY <1>2, PruneKeepsBuffers
<1>3. CASE buffer' = buffer
  BY <1>3 DEF BufferInv
<1>4. HandlerStep => buffer' = buffer
  BY DEF HandlerStep, Announce, CommitOrdered, AddChannelMember, RemoveChannelMember,
         CommitHint
<1>5. DispatchStep => Publish \/ buffer' = buffer
  BY DEF DispatchStep, Dequeue, CountConnected, ResolveAudience, ResolveAudienceFails,
         SendTo, SendDone
<1>6. MarkResync => buffer' = buffer
  BY DEF MarkResync, server
<1>7. ASSUME NEW s \in Sockets PROVE ReadStep(s) => buffer' = buffer
  BY DEF ReadStep, Open, ResolveResume, Register, Replay, ReplayDone, Deregister,
         CheckMember, FinishSubscribe, FinishTyping, server
<1>8. ASSUME NEW s \in Sockets PROVE PumpStep(s) \/ Shutdown(s) => buffer' = buffer
  BY DEF PumpStep, FlushResync, WriteFrame, Tick, Shutdown, server
<1>9. UNCHANGED vars => buffer' = buffer
  BY DEF vars, server
<1> QED BY <1>1, <1>2, <1>3, <1>4, <1>5, <1>6, <1>7, <1>8, <1>9 DEF Next

\* Consecutive windows serve every resume they accept.
LEMMA BufferInvImplies == BufferInv => WindowIsSound
<1> SUFFICES ASSUME BufferInv, NEW ch \in Channels,
                    NEW seq \in 0 .. buffer[ch].lastSeq
             PROVE  Contiguous(buffer[ch]) /\ ResumeIsComplete(buffer[ch], seq)
  BY DEF WindowIsSound, BufferInv
<1>1. buffer[ch] \in Buffer /\ Contiguous(buffer[ch]) /\ seq \in Nat
  BY DEF BufferInv, Buffer
<1> QED BY <1>1, ResumeSound

\* In every reachable state of the gateway each window is consecutive up to
\* its counter, and every resume it accepts is carried out in full.
THEOREM WindowsAreSound == Spec => []WindowIsSound
<1>1. Spec => []BufferInv
  BY BufferInit, BufferStep, PTL DEF Spec
<1> QED BY <1>1, BufferInvImplies, PTL

-------------------------------------------------------------------------------
(* Delivery.  What an event, the dispatcher, the lock, a socket's slot and  *)
(* the line from a channel to a socket look like between any two steps.     *)

\* An event for the members is about a channel; an ordered one is for all of
\* the audience.
Good == {ev \in Events :
           /\ ev.ordered \/ ev.scope # "named" => ev.ch \in Channels
           /\ ev.ordered => ev.exclude = NoUser /\ ~ev.subscribed}

Handling ==
  /\ members \in [Channels -> SUBSET Users]
  /\ handler \in [Handlers -> Seq(Good)]
  /\ events \in Seq(Good) /\ Len(events) <= EventQueue
  /\ used \in [commits : Nat, hints : Nat, changes : Nat, dials : Nat, frames : Nat]

\* What the dispatcher holds; the event it sends has the newest number.
Dispatching ==
  /\ disp \in [pc : {"idle", "count", "audience", "publish", "send"}, ev : Events,
               recipients : SUBSET Users, seq : Nat, left : SUBSET Sockets]
  /\ disp.pc # "idle" => disp.ev \in Good
  /\ disp.pc \in {"idle", "count", "audience"} => disp.recipients = {}
  /\ disp.pc = "send" =>
       /\ disp.left \subseteq Registered
       /\ disp.seq = IF disp.ev.ordered THEN buffer[disp.ev.ch].lastSeq ELSE 0

\* Those whose removal was reached are not members.
Fence ==
  /\ fenced \in [Channels -> SUBSET Users]
  /\ \A ch \in Channels : fenced[ch] \cap members[ch] = {}
  /\ RemovalIsFence

\* One holder of g.mu, who alone owes a mark.
Locking ==
  /\ lock \in {"free", "dispatch", "replay"}
  /\ lock = "dispatch" <=> disp.pc = "send"
  /\ \A s \in Sockets : phase[s] = "replay" => lock = "replay"
  /\ \A s, t \in Sockets : phase[s] = "replay" /\ phase[t] = "replay" => s = t
  /\ owed \in SUBSET (Sockets \X Chans) /\ (lock = "free" => owed = {})
  /\ \A x, y \in owed : x = y

Windows ==
  /\ BufferInv
  /\ told \in [Channels -> Seq(SUBSET Users)]
  /\ \A ch \in Channels : Len(told[ch]) = buffer[ch].lastSeq

Numbered == {f \in Frames : f.seq # 0 => f.ch \in Channels}

\* A slot is empty until its socket registers.
Slots ==
  /\ phase \in [Sockets -> {"none", "hello", "resolved", "replay", "up"}]
  /\ alive \in [Sockets -> BOOLEAN]
  /\ owner \in [Sockets -> Users \cup {NoUser}]
  /\ cand \in [Sockets -> [Channels -> Nat \cup {NoClaim}]]
  /\ todo \in [Sockets -> [Channels -> SUBSET Nat]]
  /\ checked \in [Sockets -> {<<>>} \cup ({"subscribe", "unsubscribe", "typing"} \X Channels)]
  /\ out \in [Sockets -> Seq(Numbered)] /\ \A s \in Sockets : Len(out[s]) <= OutboundBuffer
  /\ resync \in [Sockets -> SUBSET Chans]
  /\ subs \in [Sockets -> SUBSET Channels]
  /\ pump \in [Sockets -> {"flush", "select"}]
  /\ sent \in [Sockets -> [Channels -> SUBSET Nat]]
  /\ promise \in [Sockets -> [Channels -> Nat]]
  /\ \A s \in Sockets :
       /\ phase[s] \in {"none", "hello", "resolved"} => out[s] = <<>> /\ \A ch \in Channels : sent[s][ch] = {}
       /\ checked[s] # <<>> => phase[s] = "up"
       /\ phase[s] # "replay" => \A ch \in Channels : todo[s][ch] = {}

\* The numbers of a channel in a queue, and that they ascend there.
NumbersIn(q, ch) == {q[i].seq : i \in {j \in DOMAIN q : q[j].ch = ch}} \ {0}
Ascends(q, ch) == \A i, j \in DOMAIN q :
  (i < j /\ q[i].ch = ch /\ q[j].ch = ch /\ q[i].seq # 0 /\ q[j].seq # 0) => q[i].seq < q[j].seq

\* The dispatcher has a numbered frame of the channel for the socket.
Live(s, ch) == disp.pc = "send" /\ s \in disp.left /\ disp.ev.ordered /\ disp.ev.ch = ch

\* What was written or queued is below what is still to come ...
Below(s, ch) ==
  \A n \in sent[s][ch] \cup NumbersIn(out[s], ch) :
    /\ n <= buffer[ch].lastSeq
    /\ \A i \in todo[s][ch] : n < buffer[ch].entries[i]
    /\ Live(s, ch) => n < disp.seq

\* ... is in order ...
Orderly(s, ch) ==
  /\ \A seq \in NumbersIn(out[s], ch), old \in sent[s][ch] : old < seq
  /\ Ascends(out[s], ch)

Told(s, ch, seq) ==
  \/ seq \in sent[s][ch] \cup NumbersIn(out[s], ch)
  \/ Live(s, ch) /\ seq = disp.seq
  \/ ch \in resync[s]
  \/ <<s, ch>> \in owed

\* ... and leaves nothing out: during the replay, of what is promised; later,
\* of what was sent to the user.
Complete(s, ch) ==
  \A seq \in (promise[s][ch] + 1) .. buffer[ch].lastSeq :
    /\ phase[s] = "up" /\ owner[s] \in told[ch][seq] => Told(s, ch, seq)
    /\ phase[s] = "replay" => Told(s, ch, seq) \/ \E i \in todo[s][ch] : buffer[ch].entries[i] = seq

Line(s, ch) ==
  /\ todo[s][ch] \subseteq DOMAIN buffer[ch].entries
  /\ Below(s, ch) /\ Orderly(s, ch) /\ Complete(s, ch)

IInv ==
  /\ Handling /\ Dispatching /\ Fence /\ Locking /\ Windows /\ Slots
  /\ \A s \in Sockets, ch \in Channels : Line(s, ch)

-------------------------------------------------------------------------------
(* Queues.                                                                 *)

\* A frame that is appended adds its number, and keeps the order when it is
\* above the others.
LEMMA AppendFacts ==
  ASSUME NEW q \in Seq(Numbered), NEW f \in Numbered
  PROVE  /\ Append(q, f) \in Seq(Numbered) /\ Len(Append(q, f)) = Len(q) + 1
         /\ \A ch \in Channels :
              /\ NumbersIn(Append(q, f), ch) = NumbersIn(q, ch) \cup (IF f.ch = ch THEN {f.seq} \ {0} ELSE {})
              /\ Ascends(q, ch) /\ (f.ch = ch /\ f.seq # 0 => \A n \in NumbersIn(q, ch) : n < f.seq)
                   => Ascends(Append(q, f), ch)
<1> DEFINE r == Append(q, f)
           L == Len(q)
<1>1. /\ r \in Seq(Numbered) /\ Len(r) = L + 1 /\ L \in Nat /\ DOMAIN q = 1 .. L /\ DOMAIN r = 1 .. L + 1
      /\ \A i \in 1 .. L : r[i] = q[i]
      /\ r[L + 1] = f
  BY AppendProperties, LenProperties
<1> HIDE DEF r, L
<1>2. ASSUME NEW ch \in Channels
      PROVE  NumbersIn(r, ch) = NumbersIn(q, ch) \cup (IF f.ch = ch THEN {f.seq} \ {0} ELSE {})
  <2>1. ASSUME NEW n \in NumbersIn(r, ch) PROVE n \in NumbersIn(q, ch) \cup (IF f.ch = ch THEN {f.seq} \ {0} ELSE {})
    <3>1. PICK i \in 1 .. L + 1 : r[i].ch = ch /\ n = r[i].seq /\ n # 0
      BY <1>1, <2>1 DEF NumbersIn
    <3>2. CASE i = L + 1
      BY <1>1, <3>1, <3>2
    <3>3. CASE i \in 1 .. L
      BY <1>1, <3>1, <3>3 DEF NumbersIn
    <3> QED BY <1>1, <3>2, <3>3
  <2>2. ASSUME NEW n \in NumbersIn(q, ch) PROVE n \in NumbersIn(r, ch)
    <3>1. PICK i \in 1 .. L : q[i].ch = ch /\ n = q[i].seq /\ n # 0
      BY <1>1, <2>2 DEF NumbersIn
    <3>2. i \in 1 .. L + 1 /\ r[i] = q[i]
      BY <1>1, <3>1
    <3> QED BY <1>1, <3>1, <3>2 DEF NumbersIn
  <2>3. f.ch = ch /\ f.seq # 0 => f.seq \in NumbersIn(r, ch)
    <3>1. L + 1 \in 1 .. L + 1
      BY <1>1
    <3> QED BY <1>1, <3>1 DEF NumbersIn
  <2> QED BY <2>1, <2>2, <2>3
<1>3. ASSUME NEW ch \in Channels, Ascends(q, ch), f.ch = ch /\ f.seq # 0 => \A n \in NumbersIn(q, ch) : n < f.seq
      PROVE  Ascends(r, ch)
  <2> SUFFICES ASSUME NEW i \in 1 .. L + 1, NEW j \in 1 .. L + 1,
                      i < j, r[i].ch = ch, r[j].ch = ch, r[i].seq # 0, r[j].seq # 0
               PROVE  r[i].seq < r[j].seq
    BY <1>1 DEF Ascends
  <2>1. i \in 1 .. L /\ r[i] = q[i] /\ (j \in 1 .. L \/ j = L + 1)
    BY <1>1
  <2>2. CASE j \in 1 .. L
    BY <1>1, <1>3, <2>1, <2>2 DEF Ascends
  <2>3. CASE j = L + 1
    <3>1. q[i].seq \in NumbersIn(q, ch)
      BY <1>1, <2>1 DEF NumbersIn
    <3> QED BY <1>1, <1>3, <2>1, <2>3, <3>1
  <2> QED BY <2>1, <2>2, <2>3
<1> QED BY <1>1, <1>2, <1>3 DEF r, L

\* The numbers of a queue are numbers.
LEMMA NumbersAreNat ==
  ASSUME NEW q \in Seq(Numbered), NEW ch \in Channels
  PROVE  NumbersIn(q, ch) \subseteq Nat
<1>1. \A i \in DOMAIN q : q[i] \in Frames
  BY DEF Numbered
<1> QED BY <1>1 DEF NumbersIn, Frames

\* The first frame of a queue in order has the least number of its channel.
LEMMA TailFacts ==
  ASSUME NEW q \in Seq(Numbered), q # <<>>
  PROVE  /\ Head(q) \in Numbered /\ Tail(q) \in Seq(Numbered) /\ Len(Tail(q)) <= Len(q) /\ Len(Tail(q)) \in Nat
         /\ \A ch \in Channels :
              /\ NumbersIn(q, ch) = NumbersIn(Tail(q), ch) \cup (IF Head(q).ch = ch THEN {Head(q).seq} \ {0} ELSE {})
              /\ Ascends(q, ch) => /\ Ascends(Tail(q), ch)
                                   /\ Head(q).ch = ch /\ Head(q).seq # 0
                                        => \A n \in NumbersIn(Tail(q), ch) : Head(q).seq < n
<1> DEFINE r == Tail(q)
           L == Len(q)
<1>1. /\ Head(q) \in Numbered /\ r \in Seq(Numbered) /\ Len(r) = L - 1 /\ L \in Nat \ {0}
      /\ DOMAIN q = 1 .. L /\ DOMAIN r = 1 .. L - 1 /\ Head(q) = q[1]
      /\ \A i \in 1 .. L - 1 : r[i] = q[i + 1]
  <2>1. L \in Nat \ {0} /\ DOMAIN q = 1 .. L
    BY EmptySeq, LenProperties
  <2>2. Head(q) \in Numbered /\ r \in Seq(Numbered) /\ Len(r) = L - 1 /\ \A i \in 1 .. Len(r) : r[i] = q[i + 1]
    BY HeadTailProperties
  <2>3. DOMAIN r = 1 .. Len(r)
    BY <2>2, LenProperties
  <2> QED BY <2>1, <2>2, <2>3
<1> HIDE DEF r, L
<1>2. ASSUME NEW ch \in Channels
      PROVE  NumbersIn(q, ch) = NumbersIn(r, ch) \cup (IF Head(q).ch = ch THEN {Head(q).seq} \ {0} ELSE {})
  <2>1. ASSUME NEW n \in NumbersIn(q, ch) PROVE n \in NumbersIn(r, ch) \cup (IF Head(q).ch = ch THEN {Head(q).seq} \ {0} ELSE {})
    <3>1. PICK i \in 1 .. L : q[i].ch = ch /\ n = q[i].seq /\ n # 0
      BY <1>1, <2>1 DEF NumbersIn
    <3>2. CASE i = 1
      BY <1>1, <3>1, <3>2
    <3>3. CASE i # 1
      <4>1. i - 1 \in 1 .. L - 1 /\ (i - 1) + 1 = i
        BY <1>1, <3>3
      <4>2. r[i - 1] = q[i]
        BY <1>1, <4>1
      <4> QED BY <1>1, <3>1, <4>1, <4>2 DEF NumbersIn
    <3> QED BY <3>2, <3>3
  <2>2. ASSUME NEW n \in NumbersIn(r, ch) PROVE n \in NumbersIn(q, ch)
    <3>1. PICK i \in 1 .. L - 1 : r[i].ch = ch /\ n = r[i].seq /\ n # 0
      BY <1>1, <2>2 DEF NumbersIn
    <3>2. i + 1 \in 1 .. L /\ r[i] = q[i + 1]
      BY <1>1, <3>1
    <3> QED BY <1>1, <3>1, <3>2 DEF NumbersIn
  <2>3. Head(q).ch = ch /\ Head(q).seq # 0 => Head(q).seq \in NumbersIn(q, ch)
    <3>1. 1 \in 1 .. L
      BY <1>1
    <3> QED BY <1>1, <3>1 DEF NumbersIn
  <2> QED BY <2>1, <2>2, <2>3
<1>3. ASSUME NEW ch \in Channels, Ascends(q, ch)
      PROVE  /\ Ascends(r, ch)
             /\ Head(q).ch = ch /\ Head(q).seq # 0 => \A n \in NumbersIn(r, ch) : Head(q).seq < n
  <2>1. ASSUME NEW i \in 1 .. L - 1, NEW j \in 1 .. L - 1,
               i < j, r[i].ch = ch, r[j].ch = ch, r[i].seq # 0, r[j].seq # 0
        PROVE  r[i].seq < r[j].seq
    <3>1. i + 1 \in 1 .. L /\ j + 1 \in 1 .. L /\ i + 1 < j + 1 /\ r[i] = q[i + 1] /\ r[j] = q[j + 1]
      BY <1>1, <2>1
    <3> QED BY <1>1, <1>3, <2>1, <3>1 DEF Ascends
  <2>2. ASSUME Head(q).ch = ch, Head(q).seq # 0, NEW n \in NumbersIn(r, ch) PROVE Head(q).seq < n
    <3>1. PICK i \in 1 .. L - 1 : r[i].ch = ch /\ n = r[i].seq /\ n # 0
      BY <1>1, <2>2 DEF NumbersIn
    <3>2. i + 1 \in 1 .. L /\ r[i] = q[i + 1] /\ 1 \in 1 .. L /\ 1 < i + 1
      BY <1>1, <3>1
    <3> QED BY <1>1, <1>3, <2>2, <3>1, <3>2 DEF Ascends
  <2> QED BY <1>1, <2>1, <2>2 DEF Ascends
<1> QED BY <1>1, <1>2, <1>3 DEF r, L

\* An empty queue has no numbers.
LEMMA EmptyFacts == \A ch \in Channels : NumbersIn(<<>>, ch) = {} /\ Ascends(<<>>, ch)
BY DEF NumbersIn, Ascends

-------------------------------------------------------------------------------
(* What each part of the invariant is about.                               *)

\* The handlers' part.
LEMMA HandlingStays == ASSUME Handling, UNCHANGED <<members, handler, events, used>> PROVE Handling'
BY DEF Handling

\* The dispatcher's part.
LEMMA DispatchingStays == ASSUME Dispatching, UNCHANGED <<disp, phase, buffer>> PROVE Dispatching'
BY DEF Dispatching, Registered

\* The fence of the removed.
LEMMA FenceStays == ASSUME Fence, UNCHANGED <<members, fenced, disp>> PROVE Fence'
BY DEF Fence, RemovalIsFence

\* The lock's part.
LEMMA LockingStays == ASSUME Locking, UNCHANGED <<lock, disp, phase, owed>> PROVE Locking'
BY DEF Locking

\* The windows' part.
LEMMA WindowsStay == ASSUME Windows, UNCHANGED <<buffer, told>> PROVE Windows'
BY DEF Windows, BufferInv

\* The slots' part.
LEMMA SlotsStay ==
  ASSUME Slots, UNCHANGED <<phase, alive, owner, cand, todo, checked, out, resync, subs, pump, sent, promise>>
  PROVE  Slots'
BY DEF Slots

\* A line stays as it is when its ends do and no debt is forgotten.
LEMMA LineStays ==
  ASSUME NEW t \in Sockets, NEW ch \in Channels, Line(t, ch),
         phase'[t] = phase[t], owner'[t] = owner[t], todo'[t][ch] = todo[t][ch], out'[t] = out[t],
         sent'[t][ch] = sent[t][ch], promise'[t][ch] = promise[t][ch],
         ch \in resync[t] => ch \in resync'[t],
         <<t, ch>> \in owed => <<t, ch>> \in owed' \/ ch \in resync'[t],
         told'[ch] = told[ch], buffer'[ch] = buffer[ch],
         Live(t, ch)' <=> Live(t, ch), Live(t, ch) => disp'.seq = disp.seq
  PROVE  Line(t, ch)'
<1>1. Below(t, ch)' /\ Orderly(t, ch)'
  BY DEF Line, Below, Orderly
<1>2. \A seq : Told(t, ch, seq) => Told(t, ch, seq)'
  BY DEF Told
<1>3. Complete(t, ch)'
  BY <1>2 DEF Line, Complete
<1> QED BY <1>1, <1>3 DEF Line

\* So do all lines, when the dispatcher is not sending before or after.
LEMMA LinesStay ==
  ASSUME \A s \in Sockets, ch \in Channels : Line(s, ch),
         UNCHANGED <<phase, owner, todo, out, sent, promise, resync, owed, told, buffer>>,
         disp' = disp \/ (disp.pc # "send" /\ disp'.pc # "send")
  PROVE  \A s \in Sockets, ch \in Channels : Line(s, ch)'
<1> SUFFICES ASSUME NEW s \in Sockets, NEW ch \in Channels PROVE Line(s, ch)'
  OBVIOUS
<1>1. (Live(s, ch)' <=> Live(s, ch)) /\ (Live(s, ch) => disp'.seq = disp.seq)
  BY DEF Live
<1> QED BY <1>1, LineStays

-------------------------------------------------------------------------------
(* Handlers.                                                               *)

\* The events about one channel that handlers and sockets announce.
LEMMA MemberEventGood ==
  ASSUME NEW ch \in Channels
  PROVE  /\ MemberEvent(ch) \in Good /\ Ordered(ch) \in Good
         /\ \A u \in Users : /\ MemberRemoved(ch, u) \in Good /\ ChannelCreated(ch, u) \in Good
                             /\ ChannelRemoved(ch, u) \in Good
         /\ \A v \in Users \cup {NoUser} : Typing(ch, v) \in Good
BY DEF MemberEvent, Ordered, MemberRemoved, ChannelCreated, Self, ChannelRemoved, Typing, Good, Events, Chans

\* An event for one user may be about no channel.
LEMMA SelfGood == \A c \in Chans, u \in Users : Self(c, u) \in Good
BY DEF MemberEvent, Self, Good, Events

\* What a membership change has to announce.
LEMMA AnnouncementsGood ==
  ASSUME NEW x \in Good, NEW y \in Good, NEW a \in Announcements(x, y)
  PROVE  a \in Seq(Good)
<1>1. a = <<x, y>> \/ a = <<y>>
  BY DEF Announcements
<1>2. <<x, y>> \in Seq(Good)
  OBVIOUS
<1>3. <<y>> \in Seq(Good)
  OBVIOUS
<1> QED BY <1>1, <1>2, <1>3

\* One more of what is bounded is spent.
LEMMA SpendKeeps ==
  ASSUME Handling, NEW bound, NEW f \in {"commits", "hints", "changes", "dials", "frames"}, Spend(f, bound)
  PROVE  used' \in [commits : Nat, hints : Nat, changes : Nat, dials : Nat, frames : Nat]
BY SMTT(30) DEF Spend, Handling

\* A full queue drops; what is queued is good.
LEMMA EnqueueKeeps ==
  ASSUME Handling, NEW ev \in Good, enqueue(ev)
  PROVE  events' \in Seq(Good) /\ Len(events') <= EventQueue
<1>1. events \in Seq(Good) /\ Len(events) \in Nat /\ Len(events) <= EventQueue /\ EventQueue \in Nat
  BY GatewayAssumptions, LenProperties DEF Handling
<1>2. Append(events, ev) \in Seq(Good) /\ Len(Append(events, ev)) = Len(events) + 1
  BY <1>1, AppendProperties
<1> QED BY <1>1, <1>2 DEF enqueue

\* A request commits, and what it has to announce is good; membership may
\* change, and who is added is no longer fenced off.
LEMMA HandlerKeeps == ASSUME IInv, HandlerStep PROVE IInv'
<1>1. PICK h \in Handlers :
        \/ Announce(h)
        \/ \E ch \in Channels : CommitOrdered(h, ch) \/ \E u \in Users : AddChannelMember(h, ch, u) \/ RemoveChannelMember(h, ch, u)
        \/ \E ev \in Hints : CommitHint(h, ev)
  BY DEF HandlerStep
<1>2. UNCHANGED <<lock, disp, buffer, sockets, sent, promise, told>>
  BY <1>1 DEF Announce, CommitOrdered, AddChannelMember, RemoveChannelMember, CommitHint, history
<1>3. Dispatching' /\ Locking' /\ Windows' /\ Slots'
  BY <1>2, DispatchingStays, LockingStays, WindowsStay, SlotsStay DEF IInv, sockets
<1>4. \A s \in Sockets, ch \in Channels : Line(s, ch)'
  BY <1>2, LinesStay DEF IInv, sockets
<1>5. Handling' /\ Fence'
  <2>0. /\ handler \in [Handlers -> Seq(Good)] /\ members \in [Channels -> SUBSET Users] /\ Handling
        /\ events \in Seq(Good) /\ Len(events) <= EventQueue
        /\ used \in [commits : Nat, hints : Nat, changes : Nat, dials : Nat, frames : Nat]
    BY DEF IInv, Handling
  <2>1. CASE Announce(h)
    <3>1. Head(handler[h]) \in Good /\ Tail(handler[h]) \in Seq(Good)
      BY <2>0, <2>1, HeadTailProperties DEF Announce
    <3>2. events' \in Seq(Good) /\ Len(events') <= EventQueue
      BY <2>0, <2>1, <3>1, EnqueueKeeps DEF Announce
    <3>3. handler' \in [Handlers -> Seq(Good)] /\ UNCHANGED <<members, used, fenced, disp>>
      BY <2>0, <2>1, <3>1 DEF Announce, history
    <3> QED BY <2>0, <3>2, <3>3, FenceStays DEF IInv, Handling
  <2>2. ASSUME NEW ch \in Channels, CommitOrdered(h, ch) PROVE Handling' /\ Fence'
    <3>1. <<Ordered(ch)>> \in Seq(Good)
      <4>1. Ordered(ch) \in Good
        BY MemberEventGood
      <4> QED BY <4>1
    <3>2. handler' \in [Handlers -> Seq(Good)] /\ UNCHANGED <<members, events, fenced, disp>>
      BY <2>0, <2>2, <3>1 DEF CommitOrdered, history
    <3>3. used' \in [commits : Nat, hints : Nat, changes : Nat, dials : Nat, frames : Nat]
      BY <2>0, <2>2, SpendKeeps DEF CommitOrdered
    <3> QED BY <2>0, <3>2, <3>3, FenceStays DEF IInv, Handling
  <2>3. ASSUME NEW ev \in Hints, CommitHint(h, ev) PROVE Handling' /\ Fence'
    <3>1. <<ev>> \in Seq(Good)
      <4>1. ASSUME \E ch \in Channels : ev = MemberEvent(ch) PROVE ev \in Good
        <5>1. PICK ch \in Channels : ev = MemberEvent(ch)
          BY <4>1
        <5> QED BY <5>1, MemberEventGood
      <4>2. ASSUME \E c \in Chans, u \in Users : ev = Self(c, u) PROVE ev \in Good
        BY <4>2, SelfGood
      <4>3. ev \in Good
        BY <4>1, <4>2 DEF Hints
      <4> QED BY <4>3
    <3>2. handler' \in [Handlers -> Seq(Good)] /\ UNCHANGED <<members, events, fenced, disp>>
      BY <2>0, <2>3, <3>1 DEF CommitHint, history
    <3>3. used' \in [commits : Nat, hints : Nat, changes : Nat, dials : Nat, frames : Nat]
      BY <2>0, <2>3, SpendKeeps DEF CommitHint
    <3> QED BY <2>0, <3>2, <3>3, FenceStays DEF IInv, Handling
  <2>4. ASSUME NEW ch \in Channels, NEW u \in Users, AddChannelMember(h, ch, u) PROVE Handling' /\ Fence'
    <3>1. PICK a \in Announcements(ChannelCreated(ch, u), Ordered(ch)) : handler' = [handler EXCEPT ![h] = a]
      BY <2>4 DEF AddChannelMember
    <3>2. a \in Seq(Good)
      <4>1. ChannelCreated(ch, u) \in Good /\ Ordered(ch) \in Good
        BY MemberEventGood
      <4> QED BY <3>1, <4>1, AnnouncementsGood
    <3>3. /\ members' = [members EXCEPT ![ch] = @ \cup {u}] /\ fenced' = [fenced EXCEPT ![ch] = @ \ {u}]
          /\ UNCHANGED <<events, disp>>
      BY <2>4 DEF AddChannelMember
    <3>4. used' \in [commits : Nat, hints : Nat, changes : Nat, dials : Nat, frames : Nat]
      BY <2>0, <2>4, SpendKeeps DEF AddChannelMember
    <3>5. Handling'
      BY <2>0, <3>1, <3>2, <3>3, <3>4 DEF Handling
    <3>6. Fence'
      BY <2>0, <3>3 DEF IInv, Fence, RemovalIsFence
    <3> QED BY <3>5, <3>6
  <2>5. ASSUME NEW ch \in Channels, NEW u \in Users, RemoveChannelMember(h, ch, u) PROVE Handling' /\ Fence'
    <3>1. PICK a \in Announcements(MemberRemoved(ch, u), ChannelRemoved(ch, u)) : handler' = [handler EXCEPT ![h] = a]
      BY <2>5 DEF RemoveChannelMember
    <3>2. a \in Seq(Good)
      <4>1. MemberRemoved(ch, u) \in Good /\ ChannelRemoved(ch, u) \in Good
        BY MemberEventGood
      <4> QED BY <3>1, <4>1, AnnouncementsGood
    <3>3. members' = [members EXCEPT ![ch] = @ \ {u}] /\ UNCHANGED <<events, disp, fenced>>
      BY <2>5 DEF RemoveChannelMember, history
    <3>4. used' \in [commits : Nat, hints : Nat, changes : Nat, dials : Nat, frames : Nat]
      BY <2>0, <2>5, SpendKeeps DEF RemoveChannelMember
    <3>5. Handling'
      BY <2>0, <3>1, <3>2, <3>3, <3>4 DEF Handling
    <3>6. Fence'
      BY <2>0, <3>3 DEF IInv, Fence, RemovalIsFence
    <3> QED BY <3>5, <3>6
  <2> QED BY <1>1, <2>1, <2>2, <2>3, <2>4, <2>5
<1> QED BY <1>3, <1>4, <1>5 DEF IInv

-------------------------------------------------------------------------------
(* The dispatcher.                                                         *)

\* An event is taken off the queue; a removal is reached only when it has
\* committed, so who is fenced off is not a member.
LEMMA DequeueKeeps == ASSUME IInv, Dequeue PROVE IInv'
<1> DEFINE ev == Head(events)
<1>1. /\ disp.pc = "idle" /\ disp' = [Idle EXCEPT !.pc = "count", !.ev = ev] /\ events' = Tail(events)
      /\ subs' = [s \in Sockets |-> IF s \in Registered /\ owner[s] = ev.dropSubs THEN subs[s] \ {ev.ch} ELSE subs[s]]
      /\ fenced' = [ch \in Channels |-> IF ch = ev.ch /\ ev.dropSubs \in Users \ members[ch]
                                          THEN fenced[ch] \cup {ev.dropSubs} ELSE fenced[ch]]
      /\ events # <<>>
      /\ UNCHANGED <<members, handler, lock, buffer, phase, alive, owner, cand, todo,
                     checked, out, resync, pump, owed, sent, promise, told, used>>
  BY DEF Dequeue
<1>2. Handling /\ Dispatching /\ Fence /\ Locking /\ Windows /\ Slots /\ \A s \in Sockets, ch \in Channels : Line(s, ch)
  BY DEF IInv
<1>3. ev \in Good /\ events' \in Seq(Good) /\ Len(events') <= EventQueue
  <2>1. events \in Seq(Good) /\ Len(events) <= EventQueue /\ EventQueue \in Nat /\ Len(events) \in Nat
    BY <1>2, GatewayAssumptions, LenProperties DEF Handling
  <2>2. Head(events) \in Good /\ Tail(events) \in Seq(Good) /\ Len(Tail(events)) = Len(events) - 1
    BY <1>1, <2>1, HeadTailProperties
  <2> QED BY <1>1, <2>1, <2>2
<1> HIDE DEF ev
<1>4. ev \in Events
  BY <1>3 DEF Good
<1>5. disp' = [pc |-> "count", ev |-> ev, recipients |-> {}, seq |-> 0, left |-> {}]
  BY <1>1 DEF Idle
<1>6. Handling'
  BY <1>1, <1>2, <1>3 DEF Handling
<1>7. Dispatching'
  BY <1>3, <1>4, <1>5 DEF Dispatching
<1>8. Fence'
  BY <1>1, <1>2, <1>5 DEF Fence, Handling, RemovalIsFence
<1>9. Locking'
  BY <1>1, <1>2, <1>5 DEF Locking
<1>10. Windows'
  BY <1>1, <1>2, WindowsStay
<1>11. Slots'
  <2>1. subs' \in [Sockets -> SUBSET Channels]
    BY <1>1, <1>2 DEF Slots
  <2> QED BY <1>1, <1>2, <2>1 DEF Slots
<1>12. \A s \in Sockets, ch \in Channels : Line(s, ch)'
  <2>1. disp.pc # "send" /\ disp'.pc # "send"
    BY <1>1, <1>5
  <2> QED BY <1>1, <1>2, <2>1, LinesStay
<1> QED BY <1>6, <1>7, <1>8, <1>9, <1>10, <1>11, <1>12 DEF IInv

\* The dispatcher moves on before it publishes: the audience it has is empty,
\* or named, or read from the members there are now.
LEMMA ResolveKeeps ==
  ASSUME IInv, CountConnected \/ ResolveAudience \/ ResolveAudienceFails
  PROVE  IInv'
<1>1. UNCHANGED <<members, handler, events, lock, buffer, sockets, history, used>>
  BY DEF CountConnected, ResolveAudience, ResolveAudienceFails
<1>2. Handling /\ Dispatching /\ Fence /\ Locking /\ Windows /\ Slots /\ \A s \in Sockets, ch \in Channels : Line(s, ch)
  BY DEF IInv
<1>3. /\ disp \in [pc : {"idle", "count", "audience", "publish", "send"}, ev : Events,
                   recipients : SUBSET Users, seq : Nat, left : SUBSET Sockets]
      /\ disp.pc \in {"count", "audience"} /\ disp.ev \in Good /\ disp.ev \in Events /\ disp.recipients = {}
  BY <1>2 DEF Dispatching, CountConnected, ResolveAudience, ResolveAudienceFails, Good
<1>4. Idle \in [pc : {"idle", "count", "audience", "publish", "send"}, ev : Events,
                recipients : SUBSET Users, seq : Nat, left : SUBSET Sockets]
        /\ Idle.pc = "idle" /\ Idle.recipients = {}
  BY DEF Idle, NoEvent, MemberEvent, Events, Chans
<1>5. ASSUME ResolveAudience PROVE /\ Audience(disp.ev) \subseteq Users
                                   /\ disp.ev.scope # "named" => Audience(disp.ev) \subseteq members[disp.ev.ch]
  <2>1. disp.ev.scope \in {"members", "named", "verified"} /\ disp.ev.to \subseteq Users
    BY <1>3 DEF Events
  <2>2. disp.ev.scope # "named" => disp.ev.ch \in Channels /\ members[disp.ev.ch] \subseteq Users
    BY <1>2, <1>3 DEF Good, Handling
  <2> QED BY <2>1, <2>2 DEF Audience
<1>6. /\ disp' \in [pc : {"idle", "count", "audience", "publish", "send"}, ev : Events,
                    recipients : SUBSET Users, seq : Nat, left : SUBSET Sockets]
      /\ disp'.pc \in {"idle", "audience", "publish"}
      /\ disp'.pc = "idle" => disp'.recipients = {}
      /\ disp'.pc # "idle" => disp'.ev = disp.ev
      /\ disp'.pc = "audience" => disp'.recipients = {}
      /\ disp.ev.scope # "named" /\ disp'.pc = "publish" => disp'.recipients \subseteq members[disp.ev.ch]
  <2>1. CASE CountConnected
    BY <1>3, <2>1 DEF CountConnected
  <2>2. CASE ResolveAudience
    <3>1. disp' = [disp EXCEPT !.pc = "publish", !.recipients = Audience(disp.ev)]
      BY <2>2 DEF ResolveAudience
    <3> QED BY <1>3, <1>5, <2>2, <3>1
  <2>3. CASE ResolveAudienceFails
    BY <1>3, <1>4, <2>3 DEF ResolveAudienceFails
  <2> QED BY <2>1, <2>2, <2>3
<1>7. Handling' /\ Windows' /\ Slots'
  BY <1>1, <1>2, HandlingStays, WindowsStay, SlotsStay DEF sockets, history
<1>8. Dispatching'
  BY <1>3, <1>6 DEF Dispatching
<1>9. Fence'
  <2>1. fenced' = fenced /\ members' = members
    BY <1>1 DEF history
  <2>2. RemovalIsFence'
    <3> SUFFICES ASSUME disp'.pc \in {"publish", "send"}, disp'.ev.scope # "named", disp'.ev.ch \in Channels
                 PROVE  disp'.recipients \cap fenced[disp'.ev.ch] = {}
      BY <2>1 DEF RemovalIsFence
    <3>1. disp'.recipients \subseteq members[disp'.ev.ch]
      BY <1>6
    <3> QED BY <1>2, <3>1 DEF Fence
  <2> QED BY <1>2, <2>1, <2>2 DEF Fence
<1>10. Locking'
  <2>1. phase' = phase /\ owed' = owed /\ lock' = lock /\ disp.pc # "send" /\ disp'.pc # "send"
    BY <1>1, <1>3, <1>6 DEF sockets
  <2> QED BY <1>2, <2>1 DEF Locking
<1>11. \A s \in Sockets, ch \in Channels : Line(s, ch)'
  BY <1>1, <1>2, <1>3, <1>6, LinesStay DEF sockets, history
<1> QED BY <1>7, <1>8, <1>9, <1>10, <1>11 DEF IInv

\* The lock is free only when nothing is being replayed or owed.
LEMMA FreeFacts ==
  ASSUME Locking, Slots, lock = "free"
  PROVE  owed = {} /\ disp.pc # "send" /\ \A s \in Sockets : phase[s] # "replay" /\ \A ch \in Channels : todo[s][ch] = {}
BY DEF Locking, Slots

\* publish: what was queued for a socket is below the new number, and every
\* socket of the audience has it coming.
LEMMA PublishKeeps == ASSUME IInv, Publish PROVE IInv'
<1> DEFINE ev == disp.ev
           num == IF ev.ordered THEN nextSeq(buffer[ev.ch]) ELSE 0
<1>1. /\ disp.pc = "publish" /\ lock = "free" /\ lock' = "dispatch"
      /\ disp' = [disp EXCEPT !.pc = "send", !.seq = num,
                    !.left = {s \in Registered : owner[s] \in disp.recipients \ {ev.exclude}}]
      /\ buffer' = IF ev.ordered THEN [buffer EXCEPT ![ev.ch] = store(@, num)] ELSE buffer
      /\ told' = IF ev.ordered THEN [told EXCEPT ![ev.ch] = Append(@, disp.recipients)] ELSE told
      /\ UNCHANGED <<members, handler, events, sockets, sent, promise, fenced, used>>
  BY DEF Publish
<1>2. Handling /\ Dispatching /\ Fence /\ Locking /\ Windows /\ Slots /\ \A s \in Sockets, ch \in Channels : Line(s, ch)
  BY DEF IInv
<1>3. /\ disp \in [pc : {"idle", "count", "audience", "publish", "send"}, ev : Events,
                   recipients : SUBSET Users, seq : Nat, left : SUBSET Sockets]
      /\ ev \in Good /\ ev \in Events /\ (ev.ordered => ev.ch \in Channels /\ ev.exclude = NoUser)
      /\ ev.ordered \in BOOLEAN
  BY <1>1, <1>2 DEF Dispatching, Good, Events
<1>4. ASSUME NEW ch \in Channels
      PROVE  /\ buffer[ch] \in Buffer /\ Contiguous(buffer[ch]) /\ buffer[ch].lastSeq \in Nat
             /\ told[ch] \in Seq(SUBSET Users) /\ Len(told[ch]) = buffer[ch].lastSeq
             /\ nextSeq(buffer[ch]) = buffer[ch].lastSeq + 1
             /\ store(buffer[ch], nextSeq(buffer[ch])).lastSeq = buffer[ch].lastSeq + 1
  <2>1. /\ buffer[ch] \in Buffer /\ Contiguous(buffer[ch])
        /\ told[ch] \in Seq(SUBSET Users) /\ Len(told[ch]) = buffer[ch].lastSeq
    BY <1>2 DEF Windows, BufferInv
  <2> QED BY <2>1, StoreFacts DEF Buffer
<1>5. num \in Nat
  BY <1>3, <1>4
<1>6. ASSUME NEW ch \in Channels, ev.ordered, ev.ch = ch
      PROVE  /\ num = buffer[ch].lastSeq + 1 /\ buffer'[ch].lastSeq = num
             /\ told'[ch] = Append(told[ch], disp.recipients)
             /\ told'[ch] \in Seq(SUBSET Users) /\ Len(told'[ch]) = num
             /\ \A i \in 1 .. buffer[ch].lastSeq : told'[ch][i] = told[ch][i]
             /\ told'[ch][num] = disp.recipients
  <2>1. buffer \in [Channels -> Buffer] /\ told \in [Channels -> Seq(SUBSET Users)]
    BY <1>2 DEF Windows, BufferInv
  <2>2. num = buffer[ch].lastSeq + 1
    BY <1>4, <1>6
  <2>3. buffer'[ch] = store(buffer[ch], nextSeq(buffer[ch]))
    BY <1>1, <1>6, <2>1
  <2>4. told'[ch] = Append(told[ch], disp.recipients)
    BY <1>1, <1>6, <2>1
  <2>5. disp.recipients \in SUBSET Users
    BY <1>3
  <2>6. /\ Append(told[ch], disp.recipients) \in Seq(SUBSET Users)
        /\ Len(Append(told[ch], disp.recipients)) = Len(told[ch]) + 1
        /\ \A i \in 1 .. Len(told[ch]) : Append(told[ch], disp.recipients)[i] = told[ch][i]
        /\ Append(told[ch], disp.recipients)[Len(told[ch]) + 1] = disp.recipients
    BY <1>4, <2>5, AppendProperties
  <2> QED BY <1>4, <2>2, <2>3, <2>4, <2>6
<1>7. ASSUME NEW ch \in Channels, ~(ev.ordered /\ ev.ch = ch)
      PROVE  buffer'[ch] = buffer[ch] /\ told'[ch] = told[ch]
  BY <1>1, <1>2, <1>7 DEF Windows, BufferInv
<1>8. /\ disp' \in [pc : {"idle", "count", "audience", "publish", "send"}, ev : Events,
                    recipients : SUBSET Users, seq : Nat, left : SUBSET Sockets]
      /\ disp'.pc = "send" /\ disp'.ev = ev /\ disp'.recipients = disp.recipients /\ disp'.seq = num
      /\ disp'.left = {s \in Registered : owner[s] \in disp.recipients \ {ev.exclude}}
  <2>1. {s \in Registered : owner[s] \in disp.recipients \ {ev.exclude}} \in SUBSET Sockets
    BY DEF Registered
  <2> HIDE DEF num
  <2> QED BY <1>1, <1>3, <1>5, <2>1
<1>9. Handling'
  BY <1>1, <1>2, HandlingStays
<1>10. Slots'
  BY <1>1, <1>2, SlotsStay DEF sockets
<1>11. Dispatching'
  <2>1. Registered' = Registered
    BY <1>1 DEF Registered, sockets
  <2>2. disp'.left \subseteq Registered
    BY <1>8
  <2>3. disp'.seq = IF ev.ordered THEN buffer'[ev.ch].lastSeq ELSE 0
    BY <1>3, <1>6, <1>8
  <2> QED BY <1>3, <1>8, <2>1, <2>2, <2>3 DEF Dispatching
<1>12. Fence'
  BY <1>1, <1>2, <1>8 DEF Fence, RemovalIsFence
<1>13. Locking'
  BY <1>1, <1>2, <1>8 DEF Locking, sockets
<1>14. Windows'
  <2>1. BufferInv'
    BY <1>2, PublishKeepsBuffers DEF Windows
  <2>2. told' \in [Channels -> Seq(SUBSET Users)]
    <3>1. told \in [Channels -> Seq(SUBSET Users)]
      BY <1>2 DEF Windows
    <3>2. CASE ev.ordered
      BY <1>1, <1>3, <1>6, <3>1, <3>2
    <3>3. CASE ~ev.ordered
      BY <1>1, <3>1, <3>3
    <3> QED BY <3>2, <3>3
  <2>3. ASSUME NEW ch \in Channels PROVE Len(told'[ch]) = buffer'[ch].lastSeq
    BY <1>4, <1>6, <1>7
  <2> QED BY <2>1, <2>2, <2>3 DEF Windows
<1>15. ASSUME NEW s \in Sockets, NEW ch \in Channels PROVE Line(s, ch)'
  <2>1. /\ phase'[s] = phase[s] /\ owner'[s] = owner[s] /\ todo'[s][ch] = todo[s][ch] /\ out'[s] = out[s]
        /\ sent'[s][ch] = sent[s][ch] /\ promise'[s][ch] = promise[s][ch] /\ resync'[s] = resync[s] /\ owed' = owed
    BY <1>1 DEF sockets
  <2>2. ~Live(s, ch) /\ Line(s, ch)
    BY <1>1, <1>2 DEF Live
  <2>3. todo[s][ch] = {} /\ phase[s] # "replay" /\ owed = {}
    BY <1>1, <1>2, FreeFacts
  <2>4. CASE ~(ev.ordered /\ ev.ch = ch)
    <3>1. ~Live(s, ch)'
      BY <1>8, <2>4 DEF Live
    <3> QED BY <1>7, <2>1, <2>2, <2>4, <3>1, LineStays
  <2>5. CASE ev.ordered /\ ev.ch = ch
    <3>1. /\ num = buffer[ch].lastSeq + 1 /\ buffer'[ch].lastSeq = num /\ buffer[ch].lastSeq \in Nat
          /\ \A i \in 1 .. buffer[ch].lastSeq : told'[ch][i] = told[ch][i]
          /\ told'[ch][num] = disp.recipients /\ disp'.seq = num
      BY <1>4, <1>6, <1>8, <2>5
    <3>a. sent[s][ch] \subseteq Nat /\ NumbersIn(out[s], ch) \subseteq Nat /\ promise[s][ch] \in Nat
      <4>1. out[s] \in Seq(Numbered) /\ sent[s][ch] \subseteq Nat /\ promise[s][ch] \in Nat
        BY <1>2 DEF Slots
      <4> QED BY <4>1, NumbersAreNat
    <3> HIDE DEF num
    <3>2. Below(s, ch)'
      <4>1. ASSUME NEW n \in sent[s][ch] \cup NumbersIn(out[s], ch)
            PROVE  n <= buffer'[ch].lastSeq /\ n < disp'.seq
        <5>1. n <= buffer[ch].lastSeq /\ n \in Nat
          BY <2>2, <3>a DEF Line, Below
        <5> QED BY <3>1, <5>1
      <4> QED BY <2>1, <2>3, <4>1 DEF Below
    <3>3. Orderly(s, ch)'
      BY <2>1, <2>2 DEF Line, Orderly
    <3>4. Complete(s, ch)'
      <4> SUFFICES ASSUME NEW seq \in (promise[s][ch] + 1) .. buffer'[ch].lastSeq,
                          phase[s] = "up", owner[s] \in told'[ch][seq]
                   PROVE  Told(s, ch, seq)'
        BY <2>1, <2>3 DEF Complete
      <4>1. seq \in Nat /\ (seq = num \/ seq \in (promise[s][ch] + 1) .. buffer[ch].lastSeq)
        BY <3>1, <3>a
      <4>2. CASE seq = num
        <5>1. owner[s] \in disp.recipients \ {ev.exclude}
          <6>1. owner[s] \in disp.recipients /\ disp.recipients \subseteq Users
            BY <1>3, <3>1, <4>2
          <6> QED BY <1>3, <2>5, <6>1, GatewayAssumptions
        <5>2. s \in disp'.left
          BY <1>8, <5>1 DEF Registered
        <5> QED BY <1>8, <2>5, <3>1, <4>2, <5>2 DEF Told, Live
      <4>3. CASE seq \in (promise[s][ch] + 1) .. buffer[ch].lastSeq
        <5>1. seq \in 1 .. buffer[ch].lastSeq
          BY <3>1, <3>a, <4>3
        <5>2. owner[s] \in told[ch][seq]
          BY <3>1, <5>1
        <5>3. Told(s, ch, seq)
          BY <2>2, <4>3, <5>2 DEF Line, Complete
        <5> QED BY <2>1, <2>2, <5>3 DEF Told
      <4> QED BY <4>1, <4>2, <4>3
    <3>5. todo'[s][ch] \subseteq DOMAIN buffer'[ch].entries
      BY <2>1, <2>3
    <3> QED BY <3>2, <3>3, <3>4, <3>5 DEF Line
  <2> QED BY <2>4, <2>5
<1> QED BY <1>9, <1>10, <1>11, <1>12, <1>13, <1>14, <1>15 DEF IInv

\* deliver queues the frame, or leaves the queue alone and owes a mark.
LEMMA DeliverFacts ==
  ASSUME Slots, NEW s \in Sockets, NEW f \in Numbered, deliver(s, f)
  PROVE  /\ out' \in [Sockets -> Seq(Numbered)]
         /\ \A t \in Sockets : Len(out'[t]) <= OutboundBuffer
         /\ \A t \in Sockets : t # s => out'[t] = out[t]
         /\ \/ out'[s] = Append(out[s], f) /\ owed' = owed
            \/ out' = out /\ owed' = {<<s, f.ch>>}
<1>1. out \in [Sockets -> Seq(Numbered)] /\ \A t \in Sockets : Len(out[t]) <= OutboundBuffer
  BY DEF Slots
<1>2. Len(out[s]) \in Nat /\ OutboundBuffer \in Nat
  BY <1>1, GatewayAssumptions, LenProperties
<1>3. Append(out[s], f) \in Seq(Numbered) /\ Len(Append(out[s], f)) = Len(out[s]) + 1
  BY <1>1, AppendProperties
<1>4. CASE Len(out[s]) < OutboundBuffer
  <2>1. out' = [out EXCEPT ![s] = Append(out[s], f)] /\ owed' = owed
    BY <1>4 DEF deliver
  <2> QED BY <1>1, <1>2, <1>3, <1>4, <2>1
<1>5. CASE ~(Len(out[s]) < OutboundBuffer)
  BY <1>1, <1>5 DEF deliver
<1> QED BY <1>4, <1>5

\* One socket of the audience is served: the frame joins its queue above
\* everything of the channel there, or a mark is owed, or the socket does not
\* want it and it has no number.
LEMMA SendToKeeps == ASSUME IInv, NEW s \in Sockets, SendTo(s) PROVE IInv'
<1> DEFINE f == Frame(disp.ev.ch, disp.seq)
<1>1. /\ disp.pc = "send" /\ s \in disp.left /\ owed = {} /\ disp' = [disp EXCEPT !.left = @ \ {s}]
      /\ \/ (disp.ev.subscribed /\ disp.ev.ch \notin subs[s]) /\ out' = out /\ owed' = owed
         \/ deliver(s, f)
      /\ UNCHANGED <<members, handler, events, lock, buffer, phase, alive, owner, cand,
                     todo, checked, resync, subs, pump, history, used>>
  BY DEF SendTo
<1>2. Handling /\ Dispatching /\ Fence /\ Locking /\ Windows /\ Slots /\ \A t \in Sockets, ch \in Channels : Line(t, ch)
  BY DEF IInv
<1>3. /\ disp \in [pc : {"idle", "count", "audience", "publish", "send"}, ev : Events,
                   recipients : SUBSET Users, seq : Nat, left : SUBSET Sockets]
      /\ disp.ev \in Good /\ disp.ev \in Events /\ (disp.ev.ordered => disp.ev.ch \in Channels /\ ~disp.ev.subscribed)
      /\ disp.left \subseteq Registered /\ (~disp.ev.ordered => disp.seq = 0) /\ disp.ev.ch \in Chans /\ disp.seq \in Nat
      /\ disp.ev.ordered => disp.seq = buffer[disp.ev.ch].lastSeq
  BY <1>1, <1>2 DEF Dispatching, Good, Events
<1>4. f \in Numbered /\ f.ch = disp.ev.ch /\ f.seq = disp.seq
  BY <1>3 DEF Frame, Numbered, Frames
<1> HIDE DEF f
<1>5. /\ disp' \in [pc : {"idle", "count", "audience", "publish", "send"}, ev : Events,
                    recipients : SUBSET Users, seq : Nat, left : SUBSET Sockets]
      /\ disp'.pc = "send" /\ disp'.ev = disp.ev /\ disp'.recipients = disp.recipients /\ disp'.seq = disp.seq
      /\ disp'.left = disp.left \ {s}
  BY <1>1, <1>3
<1>6. /\ out' \in [Sockets -> Seq(Numbered)] /\ \A t \in Sockets : Len(out'[t]) <= OutboundBuffer
      /\ \A t \in Sockets : t # s => out'[t] = out[t]
      /\ \/ out' = out /\ owed' = {} /\ disp.ev.subscribed
         \/ out'[s] = Append(out[s], f) /\ owed' = {}
         \/ out' = out /\ owed' = {<<s, disp.ev.ch>>}
  <2>1. CASE deliver(s, f)
    BY <1>1, <1>2, <1>4, <2>1, DeliverFacts
  <2>2. CASE (disp.ev.subscribed /\ disp.ev.ch \notin subs[s]) /\ out' = out /\ owed' = owed
    BY <1>1, <1>2, <2>2 DEF Slots
  <2> QED BY <1>1, <2>1, <2>2
<1>7. Handling' /\ Windows'
  BY <1>1, <1>2, HandlingStays, WindowsStay DEF history
<1>8. Dispatching'
  BY <1>1, <1>2, <1>3, <1>5 DEF Dispatching, Registered
<1>9. Fence'
  BY <1>1, <1>2, <1>5 DEF Fence, RemovalIsFence, history
<1>10. Locking'
  <2>1. lock' = lock /\ phase' = phase /\ lock = "dispatch"
    BY <1>1, <1>2 DEF Locking
  <2>2. owed' \in SUBSET (Sockets \X Chans) /\ \A x, y \in owed' : x = y
    <3>1. owed' = {} \/ owed' = {<<s, disp.ev.ch>>}
      BY <1>6
    <3>2. <<s, disp.ev.ch>> \in Sockets \X Chans
      BY <1>3
    <3> QED BY <3>1, <3>2
  <2> QED BY <1>1, <1>2, <1>5, <2>1, <2>2 DEF Locking
<1>a. phase[s] = "up"
  BY <1>1, <1>3 DEF Registered
<1>11. Slots'
  <2>1. UNCHANGED <<phase, alive, owner, cand, todo, checked, resync, subs, pump, sent, promise>>
    BY <1>1 DEF history
  <2>2. \A t \in Sockets : phase[t] \in {"none", "hello", "resolved"} => out'[t] = <<>>
    BY <1>2, <1>6, <1>a DEF Slots
  <2> QED BY <1>2, <1>6, <2>1, <2>2 DEF Slots
<1>12. ASSUME NEW t \in Sockets, NEW ch \in Channels PROVE Line(t, ch)'
  <2>1. /\ phase'[t] = phase[t] /\ owner'[t] = owner[t] /\ todo'[t][ch] = todo[t][ch]
        /\ sent'[t][ch] = sent[t][ch] /\ promise'[t][ch] = promise[t][ch] /\ resync'[t] = resync[t]
        /\ told'[ch] = told[ch] /\ buffer'[ch] = buffer[ch]
    BY <1>1 DEF history
  <2>2. Line(t, ch)
    BY <1>2
  <2>3. CASE t # s
    <3>a. t \in disp'.left <=> t \in disp.left
      BY <1>5, <2>3
    <3>1. (Live(t, ch)' <=> Live(t, ch)) /\ disp'.seq = disp.seq
      BY <1>1, <1>5, <3>a, Zenon DEF Live
    <3> QED BY <1>1, <1>6, <2>1, <2>2, <2>3, <3>1, LineStays
  <2>4. CASE t = s
    <3>1. todo[s][ch] = {} /\ out[s] \in Seq(Numbered) /\ sent[s][ch] \subseteq Nat /\ promise[s][ch] \in Nat
      <4>1. todo[s][ch] = {}
        <5>1. phase[s] # "replay"
          BY <1>a
        <5> QED BY <1>2, <5>1 DEF Slots
      <4> QED BY <1>2, <4>1 DEF Slots
    <3>2. ~Live(s, ch)'
      BY <1>5 DEF Live
    <3>3. CASE ~Live(s, ch)
      <4>0. disp.ev.ch = ch => disp.seq = 0
        BY <1>1, <1>3, <3>3 DEF Live
      <4>1. NumbersIn(out'[s], ch) = NumbersIn(out[s], ch) /\ (Ascends(out[s], ch) => Ascends(out'[s], ch))
        <5>1. CASE out'[s] = Append(out[s], f)
          <6>1. NumbersIn(Append(out[s], f), ch) = NumbersIn(out[s], ch) \cup (IF f.ch = ch THEN {f.seq} \ {0} ELSE {})
            BY <1>4, <3>1, AppendFacts
          <6>2. Ascends(out[s], ch) => Ascends(Append(out[s], f), ch)
            BY <1>4, <3>1, <4>0, AppendFacts
          <6> QED BY <1>4, <4>0, <5>1, <6>1, <6>2
        <5> QED BY <1>6, <5>1
      <4>2. Below(s, ch)' /\ Orderly(s, ch)'
        BY <2>1, <2>2, <2>4, <3>2, <3>3, <4>1 DEF Line, Below, Orderly
      <4>3. \A seq : Told(s, ch, seq) => Told(s, ch, seq)'
        BY <1>1, <2>1, <2>4, <3>3, <4>1 DEF Told
      <4>4. Complete(s, ch)'
        BY <2>1, <2>2, <2>4, <4>3 DEF Line, Complete
      <4> QED BY <2>1, <2>2, <2>4, <4>2, <4>4 DEF Line
    <3>4. CASE Live(s, ch)
      <4>1. disp.ev.ordered /\ disp.ev.ch = ch /\ disp.seq = buffer[ch].lastSeq /\ buffer[ch].lastSeq \in Nat
        BY <1>2, <1>3, <3>4 DEF Live, Windows, BufferInv, Buffer
      <4>2. CASE out' = out /\ owed' = {<<s, ch>>}
        <5>1. Below(s, ch)' /\ Orderly(s, ch)'
          BY <2>1, <2>2, <2>4, <3>2, <4>2 DEF Line, Below, Orderly
        <5>2. \A seq : Told(s, ch, seq)'
          BY <4>2 DEF Told
        <5> QED BY <2>1, <2>2, <2>4, <5>1, <5>2 DEF Line, Complete
      <4>3. CASE out'[s] = Append(out[s], f) /\ owed' = {}
        <5>1. NumbersIn(out'[s], ch) = NumbersIn(out[s], ch) \cup ({disp.seq} \ {0})
          BY <1>4, <3>1, <4>1, <4>3, AppendFacts
        <5>2. \A n \in sent[s][ch] \cup NumbersIn(out[s], ch) : n < disp.seq
          BY <2>2, <2>4, <3>4 DEF Line, Below
        <5>3. Ascends(out'[s], ch)
          <6>1. Ascends(out[s], ch) /\ (f.ch = ch /\ f.seq # 0 => \A n \in NumbersIn(out[s], ch) : n < f.seq)
            BY <1>4, <2>2, <2>4, <5>2 DEF Line, Orderly
          <6> QED BY <1>4, <3>1, <4>3, <6>1, AppendFacts
        <5>4. Below(s, ch)'
          <6>1. \A n \in sent[s][ch] \cup NumbersIn(out'[s], ch) : n <= buffer[ch].lastSeq
            BY <2>2, <2>4, <4>1, <5>1 DEF Line, Below
          <6> QED BY <2>1, <2>4, <3>1, <3>2, <6>1 DEF Below
        <5>5. Orderly(s, ch)'
          BY <2>1, <2>2, <2>4, <5>1, <5>2, <5>3 DEF Line, Orderly
        <5>6. ASSUME NEW seq \in (promise[s][ch] + 1) .. buffer[ch].lastSeq, Told(s, ch, seq)
              PROVE  Told(s, ch, seq)'
          <6>1. seq # 0
            BY <3>1, <4>1
          <6> QED BY <1>1, <2>1, <2>4, <5>1, <5>6, <6>1 DEF Told
        <5>7. Complete(s, ch)'
          BY <2>1, <2>2, <2>4, <5>6 DEF Line, Complete
        <5> QED BY <2>1, <2>2, <2>4, <5>4, <5>5, <5>7 DEF Line
      <4> QED BY <1>3, <1>6, <4>1, <4>2, <4>3
    <3> QED BY <2>4, <3>3, <3>4
  <2> QED BY <2>3, <2>4
<1> QED BY <1>7, <1>8, <1>9, <1>10, <1>11, <1>12 DEF IInv

\* The lock is released when everybody was served.
LEMMA SendDoneKeeps == ASSUME IInv, SendDone PROVE IInv'
<1>1. /\ disp.pc = "send" /\ disp.left = {} /\ owed = {} /\ disp' = Idle /\ lock' = "free"
      /\ UNCHANGED <<members, handler, events, buffer, sockets, history, used>>
  BY DEF SendDone
<1>2. Handling /\ Dispatching /\ Fence /\ Locking /\ Windows /\ Slots /\ \A s \in Sockets, ch \in Channels : Line(s, ch)
  BY DEF IInv
<1>3. Idle \in [pc : {"idle", "count", "audience", "publish", "send"}, ev : Events,
                recipients : SUBSET Users, seq : Nat, left : SUBSET Sockets]
        /\ Idle.pc = "idle" /\ Idle.recipients = {}
  BY DEF Idle, NoEvent, MemberEvent, Events, Chans
<1>4. Handling' /\ Windows' /\ Slots'
  BY <1>1, <1>2, HandlingStays, WindowsStay, SlotsStay DEF sockets, history
<1>5. Dispatching'
  BY <1>1, <1>3 DEF Dispatching
<1>6. Fence'
  BY <1>1, <1>2, <1>3 DEF Fence, RemovalIsFence, history
<1>7. Locking'
  BY <1>1, <1>2, <1>3 DEF Locking, sockets
<1>8. ASSUME NEW s \in Sockets, NEW ch \in Channels PROVE Line(s, ch)'
  <2>1. ~Live(s, ch) /\ ~Live(s, ch)'
    BY <1>1, <1>3 DEF Live
  <2> QED BY <1>1, <1>2, <2>1, LineStays DEF sockets, history
<1> QED BY <1>4, <1>5, <1>6, <1>7, <1>8 DEF IInv

\* The mark that was owed is set: the one debt there is moves to the socket.
LEMMA MarkResyncKeeps == ASSUME IInv, MarkResync PROVE IInv'
<1>1. /\ owed' = {}
      /\ UNCHANGED <<server, phase, alive, owner, cand, todo, checked, out, subs, pump, history, used>>
  BY DEF MarkResync
<1>2. PICK s \in Sockets, c \in Chans : <<s, c>> \in owed /\ resync' = [resync EXCEPT ![s] = @ \cup {c}]
  BY DEF MarkResync
<1>3. Handling /\ Dispatching /\ Fence /\ Locking /\ Windows /\ Slots /\ \A t \in Sockets, ch \in Channels : Line(t, ch)
  BY DEF IInv
<1>4. Handling' /\ Windows' /\ Dispatching' /\ Fence'
  BY <1>1, <1>3, HandlingStays, WindowsStay, DispatchingStays, FenceStays DEF server, history
<1>5. Locking'
  BY <1>1, <1>3 DEF Locking, server
<1>6. Slots'
  <2>1. resync' \in [Sockets -> SUBSET Chans]
    BY <1>2, <1>3 DEF Slots
  <2> QED BY <1>1, <1>3, <2>1 DEF Slots, history
<1>7. ASSUME NEW t \in Sockets, NEW ch \in Channels PROVE Line(t, ch)'
  <2>1. ch \in resync[t] => ch \in resync'[t]
    BY <1>2, <1>3 DEF Slots
  <2>2. <<t, ch>> \in owed => ch \in resync'[t]
    <3>1. ASSUME <<t, ch>> \in owed PROVE t = s /\ ch = c
      BY <1>2, <1>3, <3>1 DEF Locking
    <3> QED BY <1>2, <1>3, <3>1 DEF Slots
  <2>3. Live(t, ch)' <=> Live(t, ch)
    BY <1>1 DEF Live, server
  <2> QED BY <1>1, <1>3, <2>1, <2>2, <2>3, LineStays DEF server, history
<1> QED BY <1>4, <1>5, <1>6, <1>7 DEF IInv

\* The sweep runs while nothing is replayed, so no position in a window is in
\* use; the counters stay.
LEMMA PruneKeeps == ASSUME IInv, PruneReplay PROVE IInv'
<1>1. lock = "free" /\ UNCHANGED <<members, handler, events, lock, disp, sockets, history, used>>
  BY DEF PruneReplay
<1>2. Handling /\ Dispatching /\ Fence /\ Locking /\ Windows /\ Slots /\ \A s \in Sockets, ch \in Channels : Line(s, ch)
  BY DEF IInv
<1>3. PICK old \in [Channels -> 0 .. ReplayMaxEvents] : buffer' = [ch \in Channels |-> prune(buffer[ch], old[ch])]
  BY DEF PruneReplay
<1>4. \A ch \in Channels : buffer'[ch].lastSeq = buffer[ch].lastSeq
  BY <1>3 DEF prune
<1>5. Handling' /\ Slots' /\ Fence' /\ Locking'
  BY <1>1, <1>2, HandlingStays, SlotsStay, FenceStays, LockingStays DEF sockets, history
<1>6. Dispatching'
  <2>1. disp.pc # "send"
    BY <1>1, <1>2, FreeFacts
  <2> QED BY <1>1, <1>2, <2>1 DEF Dispatching
<1>7. Windows'
  <2>1. BufferInv'
    BY <1>2, PruneKeepsBuffers DEF Windows
  <2> QED BY <1>1, <1>2, <1>4, <2>1 DEF Windows, history
<1>8. ASSUME NEW s \in Sockets, NEW ch \in Channels PROVE Line(s, ch)'
  <2>1. todo[s][ch] = {} /\ phase[s] # "replay" /\ disp.pc # "send"
    BY <1>1, <1>2, FreeFacts
  <2>2. /\ phase'[s] = phase[s] /\ owner'[s] = owner[s] /\ todo'[s][ch] = todo[s][ch] /\ out'[s] = out[s]
        /\ sent'[s][ch] = sent[s][ch] /\ promise'[s][ch] = promise[s][ch] /\ resync'[s] = resync[s] /\ owed' = owed
        /\ told'[ch] = told[ch] /\ buffer'[ch].lastSeq = buffer[ch].lastSeq /\ disp' = disp
    BY <1>1, <1>4 DEF sockets, history
  <2>3. Line(s, ch)
    BY <1>2
  <2>4. Below(s, ch)' /\ Orderly(s, ch)'
    BY <2>1, <2>2, <2>3 DEF Line, Below, Orderly, Live
  <2>5. \A seq : Told(s, ch, seq)' <=> Told(s, ch, seq)
    BY <2>2 DEF Told, Live
  <2>6. Complete(s, ch)'
    BY <2>1, <2>2, <2>3, <2>5 DEF Line, Complete
  <2> QED BY <2>1, <2>2, <2>4, <2>6 DEF Line
<1> QED BY <1>5, <1>6, <1>7, <1>8 DEF IInv

-------------------------------------------------------------------------------
(* The read loop and the write pump of a socket.                           *)

\* The dispatcher's part only asks that the sockets it serves stay.
LEMMA DispatchingHolds ==
  ASSUME Dispatching, UNCHANGED <<disp, buffer>>, disp.pc = "send" => Registered \subseteq Registered'
  PROVE  Dispatching'
BY DEF Dispatching

\* The line of a socket that is not past its handshake.
LEMMA QuietLine ==
  ASSUME NEW s \in Sockets, NEW ch \in Channels, out'[s] = <<>>, sent'[s][ch] = {}, todo'[s][ch] = {},
         phase'[s] \notin {"up", "replay"}
  PROVE  Line(s, ch)'
<1>1. NumbersIn(out'[s], ch) = {} /\ Ascends(out'[s], ch)
  BY EmptyFacts
<1> QED BY <1>1 DEF Line, Below, Orderly, Complete

\* A line also stays when a frame without a number of the channel is queued.
LEMMA LineStaysQueued ==
  ASSUME NEW t \in Sockets, NEW ch \in Channels, Line(t, ch), NEW f \in Numbered, out[t] \in Seq(Numbered),
         f.ch = ch => f.seq = 0, out'[t] = out[t] \/ out'[t] = Append(out[t], f),
         phase'[t] = phase[t], owner'[t] = owner[t], todo'[t][ch] = todo[t][ch],
         sent'[t][ch] = sent[t][ch], promise'[t][ch] = promise[t][ch],
         ch \in resync[t] => ch \in resync'[t], <<t, ch>> \in owed => <<t, ch>> \in owed',
         told'[ch] = told[ch], buffer'[ch] = buffer[ch], disp' = disp
  PROVE  Line(t, ch)'
<1>1. NumbersIn(out'[t], ch) = NumbersIn(out[t], ch) /\ (Ascends(out[t], ch) => Ascends(out'[t], ch))
  <2>1. CASE out'[t] = Append(out[t], f)
    <3>1. NumbersIn(Append(out[t], f), ch) = NumbersIn(out[t], ch) \cup (IF f.ch = ch THEN {f.seq} \ {0} ELSE {})
      BY AppendFacts
    <3>2. Ascends(out[t], ch) => Ascends(Append(out[t], f), ch)
      BY AppendFacts
    <3> QED BY <2>1, <3>1, <3>2
  <2> QED BY <2>1
<1>2. Below(t, ch)' /\ Orderly(t, ch)'
  BY <1>1 DEF Line, Below, Orderly, Live
<1>3. \A seq : Told(t, ch, seq) => Told(t, ch, seq)'
  BY <1>1 DEF Told, Live
<1>4. Complete(t, ch)'
  BY <1>3 DEF Line, Complete
<1> QED BY <1>2, <1>4 DEF Line

\* A reply has no number; queue appends it or drops it.
LEMMA QueueFacts ==
  ASSUME Slots, NEW s \in Sockets, queue(s)
  PROVE  /\ Reply \in Numbered /\ Reply.seq = 0
         /\ out' \in [Sockets -> Seq(Numbered)]
         /\ \A t \in Sockets : Len(out'[t]) <= OutboundBuffer
         /\ \A t \in Sockets : t # s => out'[t] = out[t]
         /\ out'[s] = out[s] \/ out'[s] = Append(out[s], Reply)
<1>1. out \in [Sockets -> Seq(Numbered)] /\ \A t \in Sockets : Len(out[t]) <= OutboundBuffer
  BY DEF Slots
<1>2. Len(out[s]) \in Nat /\ OutboundBuffer \in Nat
  BY <1>1, GatewayAssumptions, LenProperties
<1>3. Reply \in Numbered /\ Reply.seq = 0
  BY DEF Reply, Frame, Numbered, Frames, Chans
<1>4. Append(out[s], Reply) \in Seq(Numbered) /\ Len(Append(out[s], Reply)) = Len(out[s]) + 1
  BY <1>1, <1>3, AppendProperties
<1>5. CASE Len(out[s]) < OutboundBuffer
  <2>1. out' = [out EXCEPT ![s] = Append(out[s], Reply)]
    BY <1>5 DEF queue
  <2> QED BY <1>1, <1>2, <1>3, <1>4, <1>5, <2>1
<1>6. CASE ~(Len(out[s]) < OutboundBuffer)
  BY <1>1, <1>3, <1>6 DEF queue
<1> QED BY <1>5, <1>6

\* A connection is accepted.
LEMMA OpenKeeps == ASSUME IInv, NEW s \in Sockets, NEW u \in Users, Open(s, u) PROVE IInv'
<1>1. /\ phase[s] = "none" /\ phase' = [phase EXCEPT ![s] = "hello"] /\ alive' = [alive EXCEPT ![s] = TRUE]
      /\ owner' = [owner EXCEPT ![s] = u] /\ Spend("dials", MaxDials)
      /\ UNCHANGED <<server, cand, todo, checked, out, resync, subs, pump, owed, history>>
  BY DEF Open
<1>2. Handling /\ Dispatching /\ Fence /\ Locking /\ Windows /\ Slots /\ \A t \in Sockets, ch \in Channels : Line(t, ch)
  BY DEF IInv
<1>3. phase \in [Sockets -> {"none", "hello", "resolved", "replay", "up"}]
  BY <1>2 DEF Slots
<1>4. used' \in [commits : Nat, hints : Nat, changes : Nat, dials : Nat, frames : Nat]
  BY <1>1, <1>2, SpendKeeps
<1>5. Handling' /\ Windows' /\ Fence'
  BY <1>1, <1>2, <1>4, WindowsStay, FenceStays DEF Handling, server, history
<1>6. Dispatching'
  <2>1. Registered \subseteq Registered'
    BY <1>1, <1>3 DEF Registered
  <2> QED BY <1>1, <1>2, <2>1, DispatchingHolds DEF server
<1>7. Locking'
  BY <1>1, <1>2, <1>3 DEF Locking, server
<1>8. Slots'
  BY <1>1, <1>2 DEF Slots, history
<1>9. ASSUME NEW t \in Sockets, NEW ch \in Channels PROVE Line(t, ch)'
  <2>1. CASE t = s
    BY <1>1, <1>2, <1>3, <2>1, QuietLine DEF Slots, history
  <2>2. CASE t # s
    <3>1. phase'[t] = phase[t] /\ owner'[t] = owner[t]
      BY <1>1, <1>2, <2>2 DEF Slots
    <3>2. Live(t, ch)' <=> Live(t, ch)
      BY <1>1 DEF Live, server
    <3> QED BY <1>1, <1>2, <3>1, <3>2, LineStays DEF server, history
  <2> QED BY <2>1, <2>2
<1> QED BY <1>5, <1>6, <1>7, <1>8, <1>9 DEF IInv

\* The resume candidates are resolved, outside the lock.
LEMMA ResolveResumeKeeps ==
  ASSUME IInv, NEW s \in Sockets, NEW asked \in SUBSET Channels, NEW claim \in [asked -> 0 .. MaxCommits],
         ResolveResume(s, asked, claim)
  PROVE  IInv'
<1>1. /\ phase[s] = "hello" /\ phase' = [phase EXCEPT ![s] = "resolved"]
      /\ UNCHANGED <<server, alive, owner, todo, checked, out, resync, subs, pump, owed, history, used>>
  BY DEF ResolveResume
<1>2. Handling /\ Dispatching /\ Fence /\ Locking /\ Windows /\ Slots /\ \A t \in Sockets, ch \in Channels : Line(t, ch)
  BY DEF IInv
<1>3. phase \in [Sockets -> {"none", "hello", "resolved", "replay", "up"}]
  BY <1>2 DEF Slots
<1>4. cand' \in [Sockets -> [Channels -> Nat \cup {NoClaim}]]
  <2>1. PICK looked \in SUBSET asked, failed \in SUBSET (IF StoreMayFail THEN asked ELSE {}) :
          cand' = [cand EXCEPT ![s] = [ch \in Channels |->
                     IF ch \in looked \ failed /\ owner[s] \in members[ch] THEN claim[ch] ELSE NoClaim]]
    BY DEF ResolveResume
  <2>2. [ch \in Channels |-> IF ch \in looked \ failed /\ owner[s] \in members[ch] THEN claim[ch] ELSE NoClaim]
          \in [Channels -> Nat \cup {NoClaim}]
    <3>1. \A ch \in looked : claim[ch] \in Nat
      BY GatewayAssumptions
    <3> QED BY <3>1
  <2> QED BY <1>2, <2>1, <2>2 DEF Slots
<1>5. Handling' /\ Windows' /\ Fence'
  BY <1>1, <1>2, HandlingStays, WindowsStay, FenceStays DEF server, history
<1>6. Dispatching'
  <2>1. Registered \subseteq Registered'
    BY <1>1, <1>3 DEF Registered
  <2> QED BY <1>1, <1>2, <2>1, DispatchingHolds DEF server
<1>7. Locking'
  BY <1>1, <1>2, <1>3 DEF Locking, server
<1>8. Slots'
  BY <1>1, <1>2, <1>4 DEF Slots, history
<1>9. ASSUME NEW t \in Sockets, NEW ch \in Channels PROVE Line(t, ch)'
  <2>1. CASE t = s
    <3>1. phase'[t] = "resolved"
      BY <1>1, <1>3, <2>1
    <3>2. out[t] = <<>> /\ sent[t][ch] = {} /\ todo[t][ch] = {}
      BY <1>1, <1>2, <2>1 DEF Slots
    <3>3. out'[t] = <<>> /\ sent'[t][ch] = {} /\ todo'[t][ch] = {}
      BY <1>1, <3>2 DEF history
    <3> QED BY <3>1, <3>3, QuietLine
  <2>2. CASE t # s
    <3>1. phase'[t] = phase[t]
      BY <1>1, <1>3, <2>2
    <3>2. Live(t, ch)' <=> Live(t, ch)
      BY <1>1 DEF Live, server
    <3> QED BY <1>1, <1>2, <3>1, <3>2, LineStays DEF server, history
  <2> QED BY <2>1, <2>2
<1> QED BY <1>5, <1>6, <1>7, <1>8, <1>9 DEF IInv

\* registerAndReplay begins: what is promised is in the window, all of it, or
\* nothing is promised.
LEMMA RegisterKeeps == ASSUME IInv, NEW s \in Sockets, Register(s) PROVE IInv'
<1>1. /\ phase[s] = "resolved" /\ lock = "free" /\ lock' = "replay" /\ phase' = [phase EXCEPT ![s] = "replay"]
      /\ out' = [out EXCEPT ![s] = Append(@, Reply)]
      /\ todo' = [todo EXCEPT ![s] = [ch \in Channels |-> IF Resumes(s, ch) THEN after(buffer[ch], cand[s][ch]) ELSE {}]]
      /\ promise' = [promise EXCEPT ![s] = [ch \in Channels |-> IF Resumes(s, ch) THEN cand[s][ch] ELSE buffer[ch].lastSeq]]
      /\ UNCHANGED <<members, handler, events, disp, buffer, alive, owner, cand, checked,
                     resync, subs, pump, owed, sent, told, fenced, used>>
  BY DEF Register
<1>2. Handling /\ Dispatching /\ Fence /\ Locking /\ Windows /\ Slots /\ \A t \in Sockets, ch \in Channels : Line(t, ch)
  BY DEF IInv
<1>3. /\ phase \in [Sockets -> {"none", "hello", "resolved", "replay", "up"}] /\ out \in [Sockets -> Seq(Numbered)]
      /\ todo \in [Sockets -> [Channels -> SUBSET Nat]] /\ promise \in [Sockets -> [Channels -> Nat]]
      /\ cand \in [Sockets -> [Channels -> Nat \cup {NoClaim}]]
      /\ out[s] = <<>> /\ \A ch \in Channels : sent[s][ch] = {}
  BY <1>1, <1>2 DEF Slots
<1>4. owed = {} /\ disp.pc # "send" /\ \A t \in Sockets : phase[t] # "replay"
  BY <1>1, <1>2, FreeFacts
<1>5. Reply \in Numbered /\ Reply.seq = 0
  BY DEF Reply, Frame, Numbered, Frames, Chans
<1>6. out'[s] = Append(<<>>, Reply) /\ Append(<<>>, Reply) \in Seq(Numbered) /\ Len(Append(<<>>, Reply)) = 1
  <2>1. <<>> \in Seq(Numbered) /\ Len(<<>>) = 0
    OBVIOUS
  <2>2. Append(<<>>, Reply) \in Seq(Numbered) /\ Len(Append(<<>>, Reply)) = Len(<<>>) + 1
    BY <1>5, <2>1, AppendProperties
  <2> QED BY <1>1, <1>3, <2>1, <2>2
<1>7. ASSUME NEW ch \in Channels
      PROVE  /\ buffer[ch] \in Buffer /\ Contiguous(buffer[ch]) /\ buffer[ch].lastSeq \in Nat
             /\ todo'[s][ch] = (IF Resumes(s, ch) THEN after(buffer[ch], cand[s][ch]) ELSE {})
             /\ promise'[s][ch] = (IF Resumes(s, ch) THEN cand[s][ch] ELSE buffer[ch].lastSeq)
             /\ Resumes(s, ch) => cand[s][ch] \in Nat
             /\ after(buffer[ch], cand[s][ch]) \subseteq DOMAIN buffer[ch].entries
             /\ DOMAIN buffer[ch].entries \subseteq Nat
  <2>1. buffer[ch] \in Buffer /\ Contiguous(buffer[ch])
    BY <1>2 DEF Windows, BufferInv
  <2>2. buffer[ch].lastSeq \in Nat /\ buffer[ch].entries \in Seq(Nat)
    BY <2>1 DEF Buffer
  <2>3. DOMAIN buffer[ch].entries \subseteq Nat
    BY <2>2, LenProperties
  <2>4. /\ todo'[s][ch] = (IF Resumes(s, ch) THEN after(buffer[ch], cand[s][ch]) ELSE {})
        /\ promise'[s][ch] = (IF Resumes(s, ch) THEN cand[s][ch] ELSE buffer[ch].lastSeq)
    BY <1>1, <1>3
  <2>5. Resumes(s, ch) => cand[s][ch] \in Nat
    BY <1>3 DEF Resumes
  <2>6. after(buffer[ch], cand[s][ch]) \subseteq DOMAIN buffer[ch].entries
    BY DEF after
  <2> QED BY <2>1, <2>2, <2>3, <2>4, <2>5, <2>6
<1>8. Handling' /\ Windows' /\ Fence'
  BY <1>1, <1>2, HandlingStays, WindowsStay, FenceStays
<1>9. Dispatching'
  BY <1>1, <1>2, <1>4, DispatchingHolds
<1>10. Locking'
  BY <1>1, <1>2, <1>3, <1>4 DEF Locking
<1>11. Slots'
  <2>1. todo' \in [Sockets -> [Channels -> SUBSET Nat]]
    <3>1. [ch \in Channels |-> IF Resumes(s, ch) THEN after(buffer[ch], cand[s][ch]) ELSE {}] \in [Channels -> SUBSET Nat]
      BY <1>7
    <3> QED BY <1>1, <1>3, <3>1
  <2>2. promise' \in [Sockets -> [Channels -> Nat]]
    <3>1. [ch \in Channels |-> IF Resumes(s, ch) THEN cand[s][ch] ELSE buffer[ch].lastSeq] \in [Channels -> Nat]
      BY <1>7
    <3> QED BY <1>1, <1>3, <3>1
  <2>3. out' \in [Sockets -> Seq(Numbered)] /\ \A t \in Sockets : Len(out'[t]) <= OutboundBuffer
    <3>1. OutboundBuffer \in Nat /\ 1 <= OutboundBuffer
      BY GatewayAssumptions
    <3>2. out' = [out EXCEPT ![s] = Append(<<>>, Reply)]
      BY <1>1, <1>3
    <3>3. \A t \in Sockets : Len(out[t]) <= OutboundBuffer
      BY <1>2 DEF Slots
    <3> HIDE DEF Reply
    <3> QED BY <1>3, <1>6, <3>1, <3>2, <3>3
  <2>4. phase' \in [Sockets -> {"none", "hello", "resolved", "replay", "up"}] /\ phase'[s] = "replay"
    BY <1>1, <1>3
  <2>5. ASSUME NEW t \in Sockets
        PROVE  /\ phase'[t] \in {"none", "hello", "resolved"} => out'[t] = <<>> /\ \A ch \in Channels : sent'[t][ch] = {}
               /\ checked'[t] # <<>> => phase'[t] = "up"
               /\ phase'[t] # "replay" => \A ch \in Channels : todo'[t][ch] = {}
    <3>1. CASE t = s
      BY <1>1, <1>2, <2>4, <3>1 DEF Slots
    <3>2. CASE t # s
      <4>1. phase'[t] = phase[t] /\ out'[t] = out[t] /\ todo'[t] = todo[t] /\ sent' = sent /\ checked' = checked
        BY <1>1, <1>3, <3>2
      <4> QED BY <1>2, <4>1 DEF Slots
    <3> QED BY <3>1, <3>2
  <2> QED BY <1>1, <1>2, <2>1, <2>2, <2>3, <2>4, <2>5 DEF Slots
<1>12. ASSUME NEW t \in Sockets, NEW ch \in Channels PROVE Line(t, ch)'
  <2>1. CASE t = s
    <3>1. NumbersIn(out'[s], ch) = {} /\ Ascends(out'[s], ch) /\ sent'[s][ch] = {} /\ phase'[s] = "replay"
      <4>1. <<>> \in Seq(Numbered) /\ NumbersIn(<<>>, ch) = {} /\ Ascends(<<>>, ch)
        BY EmptyFacts
      <4>2. /\ NumbersIn(Append(<<>>, Reply), ch) = NumbersIn(<<>>, ch) \cup (IF Reply.ch = ch THEN {Reply.seq} \ {0} ELSE {})
            /\ Ascends(Append(<<>>, Reply), ch)
        BY <1>5, <4>1, AppendFacts
      <4> QED BY <1>1, <1>3, <1>5, <1>6, <4>1, <4>2
    <3>2. Below(s, ch)' /\ Orderly(s, ch)'
      BY <3>1 DEF Below, Orderly
    <3>3. Complete(s, ch)'
      <4> SUFFICES ASSUME NEW seq \in (promise'[s][ch] + 1) .. buffer[ch].lastSeq
                   PROVE  \E i \in todo'[s][ch] : buffer[ch].entries[i] = seq
        BY <1>1, <3>1 DEF Complete
      <4>1. CASE Resumes(s, ch)
        <5>1. {buffer[ch].entries[i] : i \in after(buffer[ch], cand[s][ch])} = (cand[s][ch] + 1) .. buffer[ch].lastSeq
          BY <1>7, <4>1, ResumeSound DEF Resumes, ResumeIsComplete
        <5> QED BY <1>7, <4>1, <5>1
      <4>2. CASE ~Resumes(s, ch)
        BY <1>7, <4>2
      <4> QED BY <4>1, <4>2
    <3>4. todo'[s][ch] \subseteq DOMAIN buffer'[ch].entries
      BY <1>1, <1>7
    <3> QED BY <2>1, <3>2, <3>3, <3>4 DEF Line
  <2>2. CASE t # s
    <3>1. phase'[t] = phase[t] /\ out'[t] = out[t] /\ todo'[t] = todo[t] /\ promise'[t] = promise[t]
      BY <1>1, <1>3, <2>2
    <3>2. Live(t, ch)' <=> Live(t, ch)
      BY <1>1 DEF Live
    <3> QED BY <1>1, <1>2, <3>1, <3>2, LineStays
  <2> QED BY <2>1, <2>2
<1> QED BY <1>8, <1>9, <1>10, <1>11, <1>12 DEF IInv

\* One frame is replayed: it is above what is queued, and below what is left to
\* replay, because the window ascends and is read from its start.
LEMMA ReplayKeeps == ASSUME IInv, NEW s \in Sockets, NEW c \in Channels, Replay(s, c) PROVE IInv'
<1>1. /\ phase[s] = "replay" /\ owed = {}
      /\ UNCHANGED <<server, phase, alive, owner, cand, checked, resync, subs, pump, history, used>>
  BY DEF Replay
<1>2. Handling /\ Dispatching /\ Fence /\ Locking /\ Windows /\ Slots /\ \A t \in Sockets, ch \in Channels : Line(t, ch)
  BY DEF IInv
<1>3. PICK i \in todo[s][c] :
        /\ \A j \in todo[s][c] : i <= j
        /\ deliver(s, Frame(c, buffer[c].entries[i]))
        /\ todo' = [todo EXCEPT ![s][c] = @ \ {i}]
  BY DEF Replay
<1> DEFINE n == buffer[c].entries[i]
           f == Frame(c, n)
<1>4. /\ todo \in [Sockets -> [Channels -> SUBSET Nat]] /\ todo[s][c] \subseteq DOMAIN buffer[c].entries
      /\ out \in [Sockets -> Seq(Numbered)] /\ sent \in [Sockets -> [Channels -> SUBSET Nat]]
      /\ promise \in [Sockets -> [Channels -> Nat]]
  BY <1>2 DEF Slots, Line
<1>5. /\ n \in Nat /\ n <= buffer[c].lastSeq /\ buffer[c].lastSeq \in Nat
      /\ \A j \in todo[s][c] \ {i} : n < buffer[c].entries[j]
      /\ \A j \in todo[s][c] : buffer[c].entries[j] \in Nat
  <2>1. buffer[c] \in Buffer /\ Contiguous(buffer[c])
    BY <1>2 DEF Windows, BufferInv
  <2> DEFINE es == buffer[c].entries
             last == buffer[c].lastSeq
  <2>2. /\ last \in Nat /\ es \in Seq(Nat) /\ Len(es) \in Nat /\ DOMAIN es = 1 .. Len(es) /\ Len(es) <= last
        /\ \A j \in 1 .. Len(es) : es[j] = last - Len(es) + j
    BY <2>1, LenProperties DEF Buffer, Contiguous
  <2>3. \A j \in todo[s][c] : j \in 1 .. Len(es) /\ es[j] = last - Len(es) + j /\ i <= j
    BY <1>3, <1>4, <2>2
  <2> HIDE DEF es, last
  <2>4. i \in 1 .. Len(es) /\ es[i] = last - Len(es) + i
    BY <2>3
  <2>5. es[i] \in Nat /\ es[i] <= last
    BY <2>2, <2>4
  <2>6. ASSUME NEW j \in todo[s][c] PROVE es[j] \in Nat /\ (j # i => es[i] < es[j])
    BY <2>2, <2>3, <2>4, SMTT(30)
  <2> QED BY <2>2, <2>5, <2>6 DEF es, last
<1> HIDE DEF n
<1>6. f \in Numbered /\ f.ch = c /\ f.seq = n
  BY <1>5 DEF Frame, Numbered, Frames, Chans
<1>7. deliver(s, f)
  BY <1>3 DEF n
<1> HIDE DEF f
<1>8. /\ out' \in [Sockets -> Seq(Numbered)] /\ \A t \in Sockets : Len(out'[t]) <= OutboundBuffer
      /\ \A t \in Sockets : t # s => out'[t] = out[t]
      /\ \/ out'[s] = Append(out[s], f) /\ owed' = {}
         \/ out' = out /\ owed' = {<<s, c>>}
  BY <1>1, <1>2, <1>6, <1>7, DeliverFacts
<1>9. /\ todo' \in [Sockets -> [Channels -> SUBSET Nat]] /\ \A t \in Sockets : t # s => todo'[t] = todo[t]
      /\ \A ch \in Channels : ch # c => todo'[s][ch] = todo[s][ch]
      /\ todo'[s][c] = todo[s][c] \ {i}
  BY <1>3, <1>4
<1>10. lock = "replay" /\ lock' = lock /\ disp.pc # "send" /\ disp' = disp /\ buffer' = buffer
  BY <1>1, <1>2 DEF Locking, server
<1>11. Handling' /\ Windows' /\ Fence' /\ Dispatching'
  BY <1>1, <1>2, HandlingStays, WindowsStay, FenceStays, DispatchingStays DEF server, history
<1>12. Locking'
  <2>1. owed' \in SUBSET (Sockets \X Chans) /\ \A x, y \in owed' : x = y
    <3>1. owed' = {} \/ owed' = {<<s, c>>}
      BY <1>8
    <3>2. <<s, c>> \in Sockets \X Chans
      BY DEF Chans
    <3> QED BY <3>1, <3>2
  <2> QED BY <1>1, <1>2, <1>10, <2>1 DEF Locking
<1>13. Slots'
  <2>1. ASSUME NEW t \in Sockets
        PROVE  /\ phase'[t] \in {"none", "hello", "resolved"} => out'[t] = <<>> /\ \A ch \in Channels : sent'[t][ch] = {}
               /\ checked'[t] # <<>> => phase'[t] = "up"
               /\ phase'[t] # "replay" => \A ch \in Channels : todo'[t][ch] = {}
    <3>1. CASE t = s
      BY <1>1, <1>2, <3>1 DEF Slots
    <3>2. CASE t # s
      BY <1>1, <1>2, <1>8, <1>9, <3>2 DEF Slots, history
    <3> QED BY <3>1, <3>2
  <2> QED BY <1>1, <1>2, <1>8, <1>9, <2>1 DEF Slots, history
<1>14. ASSUME NEW t \in Sockets, NEW ch \in Channels PROVE Line(t, ch)'
  <2>1. Line(t, ch)
    BY <1>2
  <2>2. /\ phase'[t] = phase[t] /\ owner'[t] = owner[t] /\ sent'[t][ch] = sent[t][ch] /\ promise'[t][ch] = promise[t][ch]
        /\ resync'[t] = resync[t] /\ told'[ch] = told[ch] /\ buffer'[ch] = buffer[ch] /\ disp' = disp
    BY <1>1, <1>10 DEF history
  <2>3. CASE t # s
    <3>1. Live(t, ch)' <=> Live(t, ch)
      BY <2>2 DEF Live
    <3> QED BY <1>1, <1>8, <1>9, <2>1, <2>2, <2>3, <3>1, LineStays
  <2>4. CASE t = s /\ ch # c
    <3>1. out'[t] = out[t] \/ out'[t] = Append(out[t], f)
      BY <1>8, <2>4
    <3> QED BY <1>1, <1>4, <1>6, <1>9, <2>1, <2>2, <2>4, <3>1, LineStaysQueued
  <2>5. CASE t = s /\ ch = c
    <3>0. ~Live(s, c) /\ ~Live(s, c)'
      BY <1>10 DEF Live
    <3>1. \A m \in sent[s][c] \cup NumbersIn(out[s], c) : m <= buffer[c].lastSeq /\ \A j \in todo[s][c] : m < buffer[c].entries[j]
      BY <2>1, <2>5 DEF Line, Below
    <3>2. \A m \in sent[s][c] \cup NumbersIn(out[s], c) : m < n
      BY <3>1 DEF n
    <3>3. Orderly(s, c) /\ Complete(s, c)
      BY <2>1, <2>5 DEF Line
    <3>4. CASE out' = out /\ owed' = {<<s, c>>}
      <4>1. Below(s, c)'
        BY <1>9, <1>10, <2>2, <2>5, <3>0, <3>1, <3>4 DEF Below
      <4>2. Orderly(s, c)'
        BY <2>2, <2>5, <3>3, <3>4 DEF Orderly
      <4>3. \A seq : Told(s, c, seq)'
        BY <3>4 DEF Told
      <4> QED BY <1>4, <1>9, <1>10, <2>5, <4>1, <4>2, <4>3 DEF Line, Complete
    <3>5. CASE out'[s] = Append(out[s], f) /\ owed' = {}
      <4>1. NumbersIn(out'[s], c) = NumbersIn(out[s], c) \cup ({n} \ {0})
        BY <1>4, <1>6, <3>5, AppendFacts
      <4>2. Ascends(out'[s], c)
        <5>1. Ascends(out[s], c) /\ (f.ch = c /\ f.seq # 0 => \A m \in NumbersIn(out[s], c) : m < f.seq)
          BY <1>6, <3>2, <3>3 DEF Orderly
        <5> QED BY <1>4, <1>6, <3>5, <5>1, AppendFacts
      <4>3. Below(s, c)'
        <5>1. \A m \in sent[s][c] \cup NumbersIn(out'[s], c) : m <= buffer[c].lastSeq
          BY <1>5, <3>1, <4>1
        <5>2. \A m \in sent[s][c] \cup NumbersIn(out'[s], c), j \in todo[s][c] \ {i} : m < buffer[c].entries[j]
          BY <1>5, <3>1, <4>1
        <5> QED BY <1>9, <1>10, <2>2, <2>5, <3>0, <5>1, <5>2 DEF Below
      <4>4. Orderly(s, c)'
        BY <2>2, <2>5, <3>2, <3>3, <4>1, <4>2 DEF Orderly
      <4>5. Complete(s, c)'
        <5> SUFFICES ASSUME NEW seq \in (promise[s][c] + 1) .. buffer[c].lastSeq
                     PROVE  Told(s, c, seq)' \/ \E j \in todo[s][c] \ {i} : buffer[c].entries[j] = seq
          BY <1>1, <1>9, <1>10, <2>2, <2>5 DEF Complete
        <5>1. Told(s, c, seq) \/ \E j \in todo[s][c] : buffer[c].entries[j] = seq
          BY <1>1, <3>3 DEF Complete
        <5>2. seq # 0 /\ seq \in Int
          BY <1>4, <1>5
        <5>3. CASE Told(s, c, seq)
          BY <1>1, <2>2, <2>5, <3>0, <4>1, <5>3 DEF Told
        <5>4. CASE seq = n
          BY <4>1, <5>2, <5>4 DEF Told
        <5>5. CASE \E j \in todo[s][c] \ {i} : buffer[c].entries[j] = seq
          BY <5>5
        <5> QED BY <5>1, <5>3, <5>4, <5>5 DEF n
      <4>6. todo'[s][c] \subseteq DOMAIN buffer'[c].entries
        BY <1>4, <1>9, <1>10
      <4> QED BY <2>5, <4>3, <4>4, <4>5, <4>6 DEF Line
    <3> QED BY <1>8, <2>5, <3>4, <3>5
  <2> QED BY <2>3, <2>4, <2>5
<1> QED BY <1>11, <1>12, <1>13, <1>14 DEF IInv

\* The replay is over: everything promised is queued, written or owed.
LEMMA ReplayDoneKeeps == ASSUME IInv, NEW s \in Sockets, ReplayDone(s) PROVE IInv'
<1>1. /\ phase[s] = "replay" /\ owed = {} /\ (\A ch \in Channels : todo[s][ch] = {})
      /\ phase' = [phase EXCEPT ![s] = "up"] /\ lock' = "free"
      /\ UNCHANGED <<members, handler, events, disp, buffer, alive, owner, cand, todo,
                     checked, out, resync, subs, pump, owed, history, used>>
  BY DEF ReplayDone
<1>2. Handling /\ Dispatching /\ Fence /\ Locking /\ Windows /\ Slots /\ \A t \in Sockets, ch \in Channels : Line(t, ch)
  BY DEF IInv
<1>3. phase \in [Sockets -> {"none", "hello", "resolved", "replay", "up"}] /\ lock = "replay" /\ disp.pc # "send"
  BY <1>1, <1>2 DEF Slots, Locking
<1>4. Handling' /\ Windows' /\ Fence'
  BY <1>1, <1>2, HandlingStays, WindowsStay, FenceStays DEF history
<1>5. Dispatching'
  BY <1>1, <1>2, <1>3, DispatchingHolds
<1>6. Locking'
  <2>1. \A t \in Sockets : phase'[t] # "replay"
    BY <1>1, <1>2, <1>3 DEF Locking
  <2> QED BY <1>1, <1>2, <1>3, <2>1 DEF Locking
<1>7. Slots'
  BY <1>1, <1>2 DEF Slots, history
<1>8. ASSUME NEW t \in Sockets, NEW ch \in Channels PROVE Line(t, ch)'
  <2>1. CASE t = s
    <3>1. /\ todo'[s][ch] = {} /\ todo[s][ch] = {} /\ out'[s] = out[s] /\ sent'[s][ch] = sent[s][ch]
          /\ promise'[s][ch] = promise[s][ch] /\ resync'[s] = resync[s] /\ owed' = owed
          /\ told'[ch] = told[ch] /\ buffer'[ch] = buffer[ch] /\ disp' = disp /\ phase'[s] = "up" /\ Line(s, ch)
      BY <1>1, <1>2, <1>3 DEF history
    <3>2. Below(s, ch)' /\ Orderly(s, ch)'
      BY <3>1 DEF Line, Below, Orderly, Live
    <3>3. \A seq : Told(s, ch, seq)' <=> Told(s, ch, seq)
      BY <3>1 DEF Told, Live
    <3>4. Complete(s, ch)'
      BY <1>1, <3>1, <3>3 DEF Line, Complete
    <3> QED BY <2>1, <3>1, <3>2, <3>4 DEF Line
  <2>2. CASE t # s
    <3>1. phase'[t] = phase[t]
      BY <1>1, <1>3, <2>2
    <3>2. Live(t, ch)' <=> Live(t, ch)
      BY <1>1 DEF Live
    <3> QED BY <1>1, <1>2, <3>1, <3>2, LineStays DEF history
  <2> QED BY <2>1, <2>2
<1> QED BY <1>4, <1>5, <1>6, <1>7, <1>8 DEF IInv

\* A socket that is open queues a reply of its own.
LEMMA ReplyKeeps ==
  ASSUME IInv, NEW s \in Sockets, phase[s] = "up", out' = out \/ queue(s),
         UNCHANGED <<server, phase, owner, todo, resync, owed, history>>
  PROVE  /\ out' \in [Sockets -> Seq(Numbered)] /\ \A t \in Sockets : Len(out'[t]) <= OutboundBuffer
         /\ \A t \in Sockets : phase[t] \in {"none", "hello", "resolved"} => out'[t] = <<>>
         /\ \A t \in Sockets, ch \in Channels : Line(t, ch)'
<1>1. Slots /\ \A t \in Sockets, ch \in Channels : Line(t, ch)
  BY DEF IInv
<1>2. /\ Reply \in Numbered /\ Reply.seq = 0
      /\ out' \in [Sockets -> Seq(Numbered)] /\ \A t \in Sockets : Len(out'[t]) <= OutboundBuffer
      /\ \A t \in Sockets : t # s => out'[t] = out[t]
      /\ out'[s] = out[s] \/ out'[s] = Append(out[s], Reply)
  <2>1. CASE queue(s)
    BY <1>1, <2>1, QueueFacts
  <2>2. CASE out' = out
    <3>1. Reply \in Numbered /\ Reply.seq = 0
      BY DEF Reply, Frame, Numbered, Frames, Chans
    <3> QED BY <1>1, <2>2, <3>1 DEF Slots
  <2> QED BY <2>1, <2>2
<1>3. \A t \in Sockets : phase[t] \in {"none", "hello", "resolved"} => out'[t] = <<>>
  BY <1>1, <1>2 DEF Slots
<1>4. ASSUME NEW t \in Sockets, NEW ch \in Channels PROVE Line(t, ch)'
  <2>1. out[t] \in Seq(Numbered) /\ Line(t, ch)
    BY <1>1 DEF Slots
  <2>2. out'[t] = out[t] \/ out'[t] = Append(out[t], Reply)
    BY <1>2
  <2>3. /\ phase'[t] = phase[t] /\ owner'[t] = owner[t] /\ todo'[t][ch] = todo[t][ch]
        /\ sent'[t][ch] = sent[t][ch] /\ promise'[t][ch] = promise[t][ch]
        /\ resync'[t] = resync[t] /\ owed' = owed /\ told'[ch] = told[ch] /\ buffer'[ch] = buffer[ch] /\ disp' = disp
    BY DEF server, history
  <2> QED BY <1>2, <2>1, <2>2, <2>3, LineStaysQueued
<1> QED BY <1>2, <1>3, <1>4

\* A frame of an open socket is admitted or answered.
LEMMA CheckMemberKeeps ==
  ASSUME IInv, NEW s \in Sockets, NEW op \in {"subscribe", "unsubscribe", "typing"}, NEW c \in Channels, CheckMember(s, op, c)
  PROVE  IInv'
<1>1. /\ phase[s] = "up" /\ Spend("frames", MaxFrames) /\ (out' = out \/ queue(s))
      /\ checked' = [checked EXCEPT ![s] = <<op, c>>] \/ checked' = checked
      /\ UNCHANGED <<server, phase, alive, owner, cand, todo, resync, subs, pump, owed, history>>
  BY DEF CheckMember
<1>2. Handling /\ Dispatching /\ Fence /\ Locking /\ Windows /\ Slots
  BY DEF IInv
<1>3. /\ out' \in [Sockets -> Seq(Numbered)] /\ \A t \in Sockets : Len(out'[t]) <= OutboundBuffer
      /\ \A t \in Sockets : phase[t] \in {"none", "hello", "resolved"} => out'[t] = <<>>
      /\ \A t \in Sockets, ch \in Channels : Line(t, ch)'
  BY <1>1, ReplyKeeps
<1>4. used' \in [commits : Nat, hints : Nat, changes : Nat, dials : Nat, frames : Nat]
  BY <1>1, <1>2, SpendKeeps
<1>5. Handling' /\ Windows' /\ Fence' /\ Dispatching' /\ Locking'
  BY <1>1, <1>2, <1>4, WindowsStay, FenceStays, DispatchingStays, LockingStays DEF Handling, server, history
<1>6. Slots'
  <2>1. /\ checked' \in [Sockets -> {<<>>} \cup ({"subscribe", "unsubscribe", "typing"} \X Channels)]
        /\ \A t \in Sockets : checked'[t] # <<>> => phase[t] = "up"
    <3>1. <<op, c>> \in {"subscribe", "unsubscribe", "typing"} \X Channels
      OBVIOUS
    <3>2. /\ checked \in [Sockets -> {<<>>} \cup ({"subscribe", "unsubscribe", "typing"} \X Channels)]
          /\ \A t \in Sockets : checked[t] # <<>> => phase[t] = "up"
      BY <1>2 DEF Slots
    <3>3. CASE checked' = checked
      BY <3>2, <3>3
    <3>4. CASE checked' = [checked EXCEPT ![s] = <<op, c>>]
      BY <1>1, <3>1, <3>2, <3>4
    <3> QED BY <1>1, <3>3, <3>4
  <2> QED BY <1>1, <1>2, <1>3, <2>1 DEF Slots, history
<1> QED BY <1>3, <1>5, <1>6 DEF IInv

\* The subscription changes and the reply is queued.
LEMMA FinishSubscribeKeeps == ASSUME IInv, NEW s \in Sockets, FinishSubscribe(s) PROVE IInv'
<1>1. /\ checked[s] # <<>> /\ queue(s) /\ checked' = [checked EXCEPT ![s] = <<>>]
      /\ subs' = [subs EXCEPT ![s] = IF checked[s][1] = "subscribe" THEN @ \cup {checked[s][2]} ELSE @ \ {checked[s][2]}]
      /\ UNCHANGED <<server, phase, alive, owner, cand, todo, resync, pump, owed, history, used>>
  BY DEF FinishSubscribe
<1>2. Handling /\ Dispatching /\ Fence /\ Locking /\ Windows /\ Slots
  BY DEF IInv
<1>3. phase[s] = "up" /\ checked[s] \in {"subscribe", "unsubscribe", "typing"} \X Channels
  BY <1>1, <1>2 DEF Slots
<1>4. /\ out' \in [Sockets -> Seq(Numbered)] /\ \A t \in Sockets : Len(out'[t]) <= OutboundBuffer
      /\ \A t \in Sockets : phase[t] \in {"none", "hello", "resolved"} => out'[t] = <<>>
      /\ \A t \in Sockets, ch \in Channels : Line(t, ch)'
  BY <1>1, <1>3, ReplyKeeps
<1>5. Handling' /\ Windows' /\ Fence' /\ Dispatching' /\ Locking'
  BY <1>1, <1>2, HandlingStays, WindowsStay, FenceStays, DispatchingStays, LockingStays DEF server, history
<1>6. Slots'
  <2>1. checked[s][2] \in Channels
    BY <1>3
  <2>2. subs' \in [Sockets -> SUBSET Channels]
    BY <1>1, <1>2, <2>1 DEF Slots
  <2>3. /\ checked' \in [Sockets -> {<<>>} \cup ({"subscribe", "unsubscribe", "typing"} \X Channels)]
        /\ \A t \in Sockets : checked'[t] # <<>> => phase[t] = "up"
    BY <1>1, <1>2 DEF Slots
  <2> QED BY <1>1, <1>2, <1>4, <2>2, <2>3 DEF Slots, history
<1> QED BY <1>4, <1>5, <1>6 DEF IInv

\* The event of a typing frame goes through the queue like any other.
LEMMA FinishTypingKeeps == ASSUME IInv, NEW s \in Sockets, FinishTyping(s) PROVE IInv'
<1>1. /\ checked[s] # <<>> /\ enqueue(Typing(checked[s][2], owner[s])) /\ checked' = [checked EXCEPT ![s] = <<>>]
      /\ UNCHANGED <<members, handler, lock, disp, buffer, phase, alive, owner, cand, todo,
                     out, resync, subs, pump, owed, history, used>>
  BY DEF FinishTyping
<1>2. Handling /\ Dispatching /\ Fence /\ Locking /\ Windows /\ Slots /\ \A t \in Sockets, ch \in Channels : Line(t, ch)
  BY DEF IInv
<1>3. Typing(checked[s][2], owner[s]) \in Good
  <2>1. checked[s] \in {"subscribe", "unsubscribe", "typing"} \X Channels /\ owner[s] \in Users \cup {NoUser}
    BY <1>1, <1>2 DEF Slots
  <2>2. checked[s][2] \in Channels
    BY <2>1
  <2> QED BY <2>1, <2>2, MemberEventGood
<1>4. Handling'
  <2>1. events' \in Seq(Good) /\ Len(events') <= EventQueue
    BY <1>1, <1>2, <1>3, EnqueueKeeps
  <2> QED BY <1>1, <1>2, <2>1 DEF Handling
<1>5. Windows' /\ Fence' /\ Dispatching' /\ Locking'
  BY <1>1, <1>2, WindowsStay, FenceStays, DispatchingStays, LockingStays DEF history
<1>6. Slots'
  BY <1>1, <1>2 DEF Slots, history
<1>7. \A t \in Sockets, ch \in Channels : Line(t, ch)'
  BY <1>1, <1>2, LinesStay DEF history
<1> QED BY <1>4, <1>5, <1>6, <1>7 DEF IInv

\* A socket leaves while nobody is being served, and its slot is empty.
LEMMA DeregisterKeeps == ASSUME IInv, NEW s \in Sockets, Deregister(s) PROVE IInv'
<1>1. /\ phase[s] \in {"hello", "up"} /\ checked[s] = <<>> /\ lock = "free"
      /\ phase' = [phase EXCEPT ![s] = "none"] /\ owner' = [owner EXCEPT ![s] = NoUser]
      /\ cand' = [cand EXCEPT ![s] = [ch \in Channels |-> NoClaim]] /\ out' = [out EXCEPT ![s] = <<>>]
      /\ resync' = [resync EXCEPT ![s] = {}] /\ subs' = [subs EXCEPT ![s] = {}] /\ pump' = [pump EXCEPT ![s] = "flush"]
      /\ sent' = [sent EXCEPT ![s] = [ch \in Channels |-> {}]]
      /\ promise' = [promise EXCEPT ![s] = [ch \in Channels |-> 0]]
      /\ UNCHANGED <<server, alive, todo, checked, owed, told, fenced, used>>
  BY DEF Deregister
<1>2. Handling /\ Dispatching /\ Fence /\ Locking /\ Windows /\ Slots /\ \A t \in Sockets, ch \in Channels : Line(t, ch)
  BY DEF IInv
<1>3. owed = {} /\ disp.pc # "send" /\ \A t \in Sockets : phase[t] # "replay" /\ \A ch \in Channels : todo[t][ch] = {}
  BY <1>1, <1>2, FreeFacts
<1>4. Handling' /\ Windows' /\ Fence'
  BY <1>1, <1>2, HandlingStays, WindowsStay, FenceStays DEF server
<1>5. Dispatching'
  BY <1>1, <1>2, <1>3, DispatchingHolds DEF server
<1>6. phase \in [Sockets -> {"none", "hello", "resolved", "replay", "up"}]
  BY <1>2 DEF Slots
<1>7. Locking'
  BY <1>1, <1>2, <1>6 DEF Locking, server
<1>8. Slots'
  <2>1. /\ phase' \in [Sockets -> {"none", "hello", "resolved", "replay", "up"}]
        /\ owner' \in [Sockets -> Users \cup {NoUser}] /\ cand' \in [Sockets -> [Channels -> Nat \cup {NoClaim}]]
        /\ resync' \in [Sockets -> SUBSET Chans] /\ subs' \in [Sockets -> SUBSET Channels]
        /\ pump' \in [Sockets -> {"flush", "select"}] /\ sent' \in [Sockets -> [Channels -> SUBSET Nat]]
        /\ promise' \in [Sockets -> [Channels -> Nat]]
    BY <1>1, <1>2 DEF Slots
  <2>2. out' \in [Sockets -> Seq(Numbered)] /\ \A t \in Sockets : Len(out'[t]) <= OutboundBuffer
    <3>1. <<>> \in Seq(Numbered) /\ Len(<<>>) = 0 /\ OutboundBuffer \in Nat
      BY GatewayAssumptions
    <3> QED BY <1>1, <1>2, <3>1 DEF Slots
  <2>3. ASSUME NEW t \in Sockets
        PROVE  /\ phase'[t] \in {"none", "hello", "resolved"} => out'[t] = <<>> /\ \A ch \in Channels : sent'[t][ch] = {}
               /\ checked'[t] # <<>> => phase'[t] = "up"
               /\ phase'[t] # "replay" => \A ch \in Channels : todo'[t][ch] = {}
    <3>1. CASE t = s
      BY <1>1, <1>2, <1>3, <3>1 DEF Slots
    <3>2. CASE t # s
      <4>1. phase'[t] = phase[t] /\ out'[t] = out[t] /\ sent'[t] = sent[t] /\ todo' = todo /\ checked' = checked
        BY <1>1, <1>2, <3>2 DEF Slots
      <4> QED BY <1>2, <4>1 DEF Slots
    <3> QED BY <3>1, <3>2
  <2> QED BY <1>1, <1>2, <2>1, <2>2, <2>3 DEF Slots
<1>9. ASSUME NEW t \in Sockets, NEW ch \in Channels PROVE Line(t, ch)'
  <2>1. CASE t = s
    <3>1. out'[s] = <<>> /\ sent'[s][ch] = {} /\ todo'[s][ch] = {} /\ phase'[s] = "none"
      BY <1>1, <1>2, <1>3 DEF Slots
    <3> QED BY <2>1, <3>1, QuietLine
  <2>2. CASE t # s
    <3>1. /\ phase'[t] = phase[t] /\ owner'[t] = owner[t] /\ out'[t] = out[t] /\ sent'[t] = sent[t]
          /\ promise'[t] = promise[t] /\ resync'[t] = resync[t]
      BY <1>1, <1>2, <2>2 DEF Slots
    <3>2. Live(t, ch)' <=> Live(t, ch)
      BY <1>1 DEF Live, server
    <3> QED BY <1>1, <1>2, <3>1, <3>2, LineStays DEF server
  <2> QED BY <2>1, <2>2
<1> QED BY <1>4, <1>5, <1>7, <1>8, <1>9 DEF IInv

\* A resync is written: the client reads up to the present, so nothing below is
\* owed to it any more.
LEMMA FlushResyncKeeps == ASSUME IInv, NEW s \in Sockets, FlushResync(s) PROVE IInv'
<1>1. /\ promise' = [promise EXCEPT ![s] = [ch \in Channels |-> IF ch \in resync[s] THEN buffer[ch].lastSeq ELSE @[ch]]]
      /\ resync' = [resync EXCEPT ![s] = {}] /\ pump' = [pump EXCEPT ![s] = "select"]
      /\ UNCHANGED <<server, phase, alive, owner, cand, todo, checked, out, subs, owed, sent, told, fenced, used>>
  BY DEF FlushResync
<1>2. Handling /\ Dispatching /\ Fence /\ Locking /\ Windows /\ Slots /\ \A t \in Sockets, ch \in Channels : Line(t, ch)
  BY DEF IInv
<1>3. promise \in [Sockets -> [Channels -> Nat]] /\ resync \in [Sockets -> SUBSET Chans]
  BY <1>2 DEF Slots
<1>4. \A ch \in Channels : buffer[ch].lastSeq \in Nat
  BY <1>2 DEF Windows, BufferInv, Buffer
<1>5. Handling' /\ Windows' /\ Fence' /\ Dispatching' /\ Locking'
  BY <1>1, <1>2, HandlingStays, WindowsStay, FenceStays, DispatchingStays, LockingStays DEF server
<1>6. Slots'
  <2>1. promise' \in [Sockets -> [Channels -> Nat]]
    <3>1. [ch \in Channels |-> IF ch \in resync[s] THEN buffer[ch].lastSeq ELSE promise[s][ch]] \in [Channels -> Nat]
      BY <1>3, <1>4
    <3> QED BY <1>1, <1>3, <3>1
  <2>2. resync' \in [Sockets -> SUBSET Chans] /\ pump' \in [Sockets -> {"flush", "select"}]
    BY <1>1, <1>2 DEF Slots
  <2> QED BY <1>1, <1>2, <2>1, <2>2 DEF Slots
<1>7. ASSUME NEW t \in Sockets, NEW ch \in Channels PROVE Line(t, ch)'
  <2>0. Live(t, ch)' <=> Live(t, ch)
    BY <1>1 DEF Live, server
  <2>1. CASE t # s \/ ch \notin resync[s]
    <3>1. promise'[t][ch] = promise[t][ch] /\ (ch \in resync[t] => ch \in resync'[t])
      BY <1>1, <1>3, <2>1
    <3> QED BY <1>1, <1>2, <2>0, <3>1, LineStays DEF server
  <2>2. CASE t = s /\ ch \in resync[s]
    <3>1. /\ promise'[s][ch] = buffer[ch].lastSeq /\ buffer' = buffer /\ disp' = disp /\ out' = out /\ sent' = sent
          /\ todo' = todo
      BY <1>1, <1>3, <2>2 DEF server
    <3>2. Line(s, ch)
      BY <1>2
    <3>3. Below(s, ch)' /\ Orderly(s, ch)'
      BY <3>1, <3>2 DEF Line, Below, Orderly, Live
    <3>4. Complete(s, ch)'
      <4>1. \A seq \in (promise'[s][ch] + 1) .. buffer'[ch].lastSeq : FALSE
        BY <1>4, <3>1
      <4> QED BY <4>1 DEF Complete
    <3> QED BY <2>2, <3>1, <3>2, <3>3, <3>4 DEF Line
  <2> QED BY <2>1, <2>2
<1> QED BY <1>5, <1>6, <1>7 DEF IInv

\* The first frame of the queue is written: its number moves from what is
\* queued, of which it is the least, to what is written.
LEMMA WriteFrameKeeps == ASSUME IInv, NEW s \in Sockets, WriteFrame(s) PROVE IInv'
<1> DEFINE f == Head(out[s])
<1>1. /\ out[s] # <<>> /\ out' = [out EXCEPT ![s] = Tail(out[s])] /\ pump' = [pump EXCEPT ![s] = "flush"]
      /\ sent' = IF f.seq = 0 THEN sent ELSE [sent EXCEPT ![s][f.ch] = @ \cup {f.seq}]
      /\ UNCHANGED <<server, phase, alive, owner, cand, todo, checked, resync, subs, owed, promise, told, fenced, used>>
  BY DEF WriteFrame
<1>2. Handling /\ Dispatching /\ Fence /\ Locking /\ Windows /\ Slots /\ \A t \in Sockets, ch \in Channels : Line(t, ch)
  BY DEF IInv
<1>3. /\ out \in [Sockets -> Seq(Numbered)] /\ out[s] \in Seq(Numbered) /\ sent \in [Sockets -> [Channels -> SUBSET Nat]]
      /\ \A t \in Sockets : Len(out[t]) <= OutboundBuffer
  BY <1>2 DEF Slots
<1>4. f \in Numbered /\ Tail(out[s]) \in Seq(Numbered) /\ Len(Tail(out[s])) <= Len(out[s]) /\ Len(Tail(out[s])) \in Nat
  BY <1>1, <1>3, TailFacts
<1>5. ASSUME NEW ch \in Channels
      PROVE  /\ NumbersIn(out[s], ch) = NumbersIn(Tail(out[s]), ch) \cup (IF f.ch = ch THEN {f.seq} \ {0} ELSE {})
             /\ Ascends(Tail(out[s]), ch)
             /\ f.ch = ch /\ f.seq # 0 => \A n \in NumbersIn(Tail(out[s]), ch) : f.seq < n
  <2>1. Ascends(out[s], ch)
    BY <1>2 DEF Line, Orderly
  <2> QED BY <1>1, <1>3, <2>1, TailFacts
<1>6. f.seq \in Nat /\ (f.seq # 0 => f.ch \in Channels)
  BY <1>4 DEF Numbered, Frames
<1> HIDE DEF f
<1>7. /\ sent' \in [Sockets -> [Channels -> SUBSET Nat]] /\ \A t \in Sockets : t # s => sent'[t] = sent[t]
      /\ \A ch \in Channels : sent'[s][ch] = sent[s][ch] \cup (IF f.ch = ch THEN {f.seq} \ {0} ELSE {})
  <2>1. CASE f.seq = 0
    BY <1>1, <1>3, <2>1
  <2>2. CASE f.seq # 0
    BY <1>1, <1>3, <1>6, <2>2
  <2> QED BY <2>1, <2>2
<1>8. Handling' /\ Windows' /\ Fence' /\ Dispatching' /\ Locking'
  BY <1>1, <1>2, HandlingStays, WindowsStay, FenceStays, DispatchingStays, LockingStays DEF server
<1>9. Slots'
  <2>1. out' \in [Sockets -> Seq(Numbered)] /\ \A t \in Sockets : Len(out'[t]) <= OutboundBuffer
    <3>1. Len(out[s]) \in Nat /\ OutboundBuffer \in Nat
      BY <1>3, GatewayAssumptions, LenProperties
    <3>2. Len(Tail(out[s])) <= OutboundBuffer
      BY <1>3, <1>4, <3>1
    <3> QED BY <1>1, <1>3, <1>4, <3>2
  <2>2. pump' \in [Sockets -> {"flush", "select"}]
    BY <1>1, <1>2 DEF Slots
  <2>3. phase[s] \notin {"none", "hello", "resolved"}
    BY <1>1, <1>2 DEF Slots
  <2>4. \A t \in Sockets : phase[t] \in {"none", "hello", "resolved"} => out'[t] = <<>> /\ \A ch \in Channels : sent'[t][ch] = {}
    BY <1>1, <1>2, <1>3, <1>7, <2>3 DEF Slots
  <2> QED BY <1>1, <1>2, <1>7, <2>1, <2>2, <2>4 DEF Slots
<1>10. ASSUME NEW t \in Sockets, NEW ch \in Channels PROVE Line(t, ch)'
  <2>1. CASE t # s
    <3>1. out'[t] = out[t] /\ sent'[t] = sent[t]
      BY <1>1, <1>3, <1>7, <2>1
    <3>2. Live(t, ch)' <=> Live(t, ch)
      BY <1>1 DEF Live, server
    <3> QED BY <1>1, <1>2, <3>1, <3>2, LineStays DEF server
  <2>2. CASE t = s
    <3>1. out'[s] = Tail(out[s]) /\ buffer' = buffer /\ disp' = disp /\ todo' = todo
      BY <1>1, <1>3 DEF server
    <3>2. sent'[s][ch] \cup NumbersIn(out'[s], ch) = sent[s][ch] \cup NumbersIn(out[s], ch)
      BY <1>5, <1>7, <3>1
    <3>3. Line(s, ch)
      BY <1>2
    <3>4. Below(s, ch)'
      BY <3>1, <3>2, <3>3 DEF Line, Below, Live
    <3>5. Orderly(s, ch)'
      <4>1. \A seq \in NumbersIn(out[s], ch), old \in sent[s][ch] : old < seq
        BY <3>3 DEF Line, Orderly
      <4>2. \A seq \in NumbersIn(Tail(out[s]), ch), old \in sent'[s][ch] : old < seq
        BY <1>5, <1>7, <4>1
      <4> QED BY <1>5, <3>1, <4>2 DEF Orderly
    <3>6. \A seq : Told(s, ch, seq)' <=> Told(s, ch, seq)
      BY <1>1, <3>1, <3>2 DEF Told, Live
    <3>7. Complete(s, ch)'
      BY <1>1, <3>1, <3>3, <3>6 DEF Line, Complete
    <3> QED BY <2>2, <3>1, <3>3, <3>4, <3>5, <3>7 DEF Line
  <2> QED BY <2>1, <2>2
<1> QED BY <1>8, <1>9, <1>10 DEF IInv

\* The ticker and the end of a pump touch no line.
LEMMA TickKeeps == ASSUME IInv, NEW s \in Sockets, Tick(s) \/ Shutdown(s) PROVE IInv'
<1>1. /\ pump' = [pump EXCEPT ![s] = "flush"] \/ pump' = pump
      /\ alive' = [alive EXCEPT ![s] = FALSE] \/ alive' = alive
      /\ UNCHANGED <<server, phase, owner, cand, todo, checked, out, resync, subs, owed, history, used>>
  BY DEF Tick, Shutdown
<1>2. Handling /\ Dispatching /\ Fence /\ Locking /\ Windows /\ Slots /\ \A t \in Sockets, ch \in Channels : Line(t, ch)
  BY DEF IInv
<1>3. Handling' /\ Windows' /\ Fence' /\ Dispatching' /\ Locking'
  BY <1>1, <1>2, HandlingStays, WindowsStay, FenceStays, DispatchingStays, LockingStays DEF server, history
<1>4. Slots'
  <2>1. pump' \in [Sockets -> {"flush", "select"}] /\ alive' \in [Sockets -> BOOLEAN]
    BY <1>1, <1>2 DEF Slots
  <2> QED BY <1>1, <1>2, <2>1 DEF Slots, history
<1>5. \A t \in Sockets, ch \in Channels : Line(t, ch)'
  BY <1>1, <1>2, LinesStay DEF server, history
<1> QED BY <1>3, <1>4, <1>5 DEF IInv

-------------------------------------------------------------------------------
(* The invariant, and what it says of delivery.                            *)

\* A gateway that starts has no sockets, no events and empty windows.
LEMMA InitIInv == Init => IInv
<1> SUFFICES ASSUME Init PROVE IInv
  OBVIOUS
<1>1. Idle \in [pc : {"idle", "count", "audience", "publish", "send"}, ev : Events,
                recipients : SUBSET Users, seq : Nat, left : SUBSET Sockets]
        /\ Idle.pc = "idle" /\ Idle.recipients = {}
  BY DEF Idle, NoEvent, MemberEvent, Events, Chans
<1>2. Handling
  <2>1. <<>> \in Seq(Good) /\ Len(<<>>) = 0 /\ EventQueue \in Nat
    BY GatewayAssumptions
  <2>2. used \in [commits : Nat, hints : Nat, changes : Nat, dials : Nat, frames : Nat]
    BY DEF Init
  <2>3. handler \in [Handlers -> Seq(Good)] /\ events \in Seq(Good) /\ Len(events) <= EventQueue
    BY <2>1 DEF Init
  <2>4. members \in [Channels -> SUBSET Users]
    BY GatewayAssumptions DEF Init
  <2> QED BY <2>2, <2>3, <2>4 DEF Handling
<1>3. Dispatching
  BY <1>1 DEF Init, Dispatching
<1>4. Fence
  BY <1>1 DEF Init, Fence, RemovalIsFence
<1>5. Locking
  BY <1>1 DEF Init, Locking
<1>6. Windows
  <2>1. <<>> \in Seq(SUBSET Users) /\ Len(<<>>) = 0
    OBVIOUS
  <2> QED BY <2>1, BufferInit DEF Init, Windows, NoBuffer
<1>7. Slots
  <2>1. <<>> \in Seq(Numbered) /\ Len(<<>>) = 0 /\ OutboundBuffer \in Nat
    BY GatewayAssumptions
  <2>2. out \in [Sockets -> Seq(Numbered)] /\ \A s \in Sockets : Len(out[s]) <= OutboundBuffer
    BY <2>1 DEF Init
  <2> QED BY <2>2 DEF Init, Slots
<1>8. ASSUME NEW s \in Sockets, NEW ch \in Channels PROVE Line(s, ch)
  <2>1. out[s] = <<>> /\ sent[s][ch] = {} /\ todo[s][ch] = {} /\ phase[s] = "none"
    BY DEF Init
  <2>2. NumbersIn(out[s], ch) = {} /\ Ascends(out[s], ch)
    BY <2>1, EmptyFacts
  <2> QED BY <2>1, <2>2 DEF Line, Below, Orderly, Complete
<1> QED BY <1>2, <1>3, <1>4, <1>5, <1>6, <1>7, <1>8 DEF IInv

\* Every step keeps the invariant.
LEMMA StepIInv == IInv /\ [Next]_vars => IInv'
<1> SUFFICES ASSUME IInv, [Next]_vars PROVE IInv'
  OBVIOUS
<1>1. CASE HandlerStep
  BY <1>1, HandlerKeeps
<1>2. CASE DispatchStep
  BY <1>2, DequeueKeeps, ResolveKeeps, PublishKeeps, SendToKeeps, SendDoneKeeps DEF DispatchStep
<1>3. CASE MarkResync
  BY <1>3, MarkResyncKeeps
<1>4. CASE PruneReplay
  BY <1>4, PruneKeeps
<1>5. ASSUME NEW s \in Sockets, ReadStep(s) PROVE IInv'
  BY <1>5, OpenKeeps, ResolveResumeKeeps, RegisterKeeps, ReplayDoneKeeps, DeregisterKeeps, ReplayKeeps,
     CheckMemberKeeps, FinishSubscribeKeeps, FinishTypingKeeps DEF ReadStep
<1>6. ASSUME NEW s \in Sockets, PumpStep(s) \/ Shutdown(s) PROVE IInv'
  BY <1>6, FlushResyncKeeps, WriteFrameKeeps, TickKeeps DEF PumpStep
<1>7. CASE UNCHANGED vars
  <2>1. UNCHANGED <<members, handler, events, lock, disp, buffer, used, told, fenced, owed,
                    phase, alive, owner, cand, todo, checked, out, resync, subs, pump, sent, promise>>
    BY <1>7 DEF vars, server, sockets, history
  <2>2. Handling' /\ Windows' /\ Fence' /\ Dispatching' /\ Locking' /\ Slots'
    BY <2>1, HandlingStays, WindowsStay, FenceStays, DispatchingStays, LockingStays, SlotsStay DEF IInv
  <2>3. \A s \in Sockets, ch \in Channels : Line(s, ch)'
    BY <2>1, LinesStay DEF IInv
  <2> QED BY <2>2, <2>3 DEF IInv
<1> QED BY <1>1, <1>2, <1>3, <1>4, <1>5, <1>6, <1>7 DEF Next

\* Between any two steps of the gateway the dispatcher, the lock, the windows,
\* the slots and every line from a channel to a socket are as described above.
THEOREM Invariant == Spec => []IInv
BY InitIInv, StepIInv, PTL DEF Spec

\* The invariant says that no event is missing without a word, none is out of
\* order, and every queue is within its limit.
LEMMA IInvDelivers == IInv => DeliveryIsSound
<1> SUFFICES ASSUME IInv PROVE DeliveryIsSound
  OBVIOUS
<1>1. Handling /\ Dispatching /\ Fence /\ Locking /\ Windows /\ Slots /\ \A s \in Sockets, ch \in Channels : Line(s, ch)
  BY DEF IInv
<1>2. TypeOK
  <2>1. Good \subseteq Events /\ Numbered \subseteq Frames
    BY DEF Good, Numbered
  <2>2. handler \in [Handlers -> Seq(Events)] /\ events \in Seq(Events) /\ out \in [Sockets -> Seq(Frames)]
    <3>1. \A q \in Seq(Good) : q \in Seq(Events)
      BY <2>1
    <3>2. \A q \in Seq(Numbered) : q \in Seq(Frames)
      BY <2>1
    <3>3. \A h \in Handlers : handler[h] \in Seq(Events)
      BY <1>1, <3>1 DEF Handling
    <3>4. \A s \in Sockets : out[s] \in Seq(Frames)
      BY <1>1, <3>2 DEF Slots
    <3> QED BY <1>1, <3>1, <3>3, <3>4 DEF Handling, Slots
  <2> QED BY <1>1, <2>2 DEF TypeOK, Handling, Dispatching, Fence, Locking, Windows, BufferInv, Slots
<1>3. NoSilentGap
  <2> SUFFICES ASSUME NEW s \in Registered, NEW ch \in Channels,
                      NEW seq \in (promise[s][ch] + 1) .. buffer[ch].lastSeq, owner[s] \in told[ch][seq]
               PROVE  Accounted(s, ch, seq)
    BY DEF NoSilentGap
  <2>1. s \in Sockets /\ phase[s] = "up"
    BY DEF Registered
  <2>2. Told(s, ch, seq)
    BY <1>1, <2>1 DEF Line, Complete
  <2>3. Queued(s, ch) = NumbersIn(out[s], ch)
    BY DEF Queued, NumbersIn
  <2> QED BY <2>2, <2>3 DEF Told, Live, Accounted, Coming
<1>4. InOrder
  <2> SUFFICES ASSUME NEW s \in Sockets, NEW ch \in Channels
               PROVE  /\ \A seq \in Queued(s, ch), old \in sent[s][ch] : old < seq
                      /\ Ascends(out[s], ch)
    BY DEF InOrder, Ascends
  <2>1. Queued(s, ch) = NumbersIn(out[s], ch)
    BY DEF Queued, NumbersIn
  <2> QED BY <1>1, <2>1 DEF Line, Orderly
<1> QED BY <1>2, <1>3, <1>4 DEF DeliveryIsSound

\* An open socket is never left silently short of an event that was sent to its
\* user, events of a channel reach it in order and none twice, and no queue
\* outgrows its capacity, for any number of sockets, channels and events, any
\* capacity and any failures of the database.
THEOREM DeliveryIsSoundAlways == Spec => []DeliveryIsSound
BY Invariant, IInvDelivers, PTL

\* Once the dispatcher has reached the announcement of a removal, nothing it
\* publishes to the members goes to the removed user.
THEOREM RemovalIsFenceAlways == Spec => []RemovalIsFence
<1>1. IInv => RemovalIsFence
  BY DEF IInv, Fence
<1> QED BY <1>1, Invariant, PTL
===============================================================================
