----------------------------- MODULE ReplayBuffer -----------------------------
(***************************************************************************)
(* The per-channel replay buffer of the realtime gateway                   *)
(* (server/internal/wsgateway/replay.go): a sequence counter and a bounded *)
(* window of the most recent ordered events.                               *)
(*                                                                         *)
(* An entry is its sequence number.  The rendered frame is a function of   *)
(* the number (frames are encoded once, with it), and the time an entry    *)
(* was stored is only ever compared with the cutoff of prune, which any    *)
(* prefix of the window can be older than.                                 *)
(***************************************************************************)
EXTENDS Integers, Sequences

CONSTANT ReplayMaxEvents        \* replayMaxEvents, 256 in the program

ASSUME ReplayMaxEventsAssumption == ReplayMaxEvents \in Nat \ {0}

Buffer == [lastSeq : Nat, entries : Seq(Nat)]

\* A channel that never carried an ordered event has no buffer at all.  Every
\* buffer that exists was created by publish, which assigns it number 1 in the
\* same critical section, so lastSeq = 0 tells the two apart.
NoBuffer == [lastSeq |-> 0, entries |-> <<>>]

nextSeq(b) == b.lastSeq + 1

\* The last n elements, or all of them when there are fewer.
LastEntries(entries, n) ==
  SubSeq(entries, IF Len(entries) > n THEN Len(entries) - n + 1 ELSE 1, Len(entries))

\* nextSeq followed by store: the counter moves and the entry goes in, the
\* oldest one falling out of a full window.
store(b, seq) ==
  [lastSeq |-> seq,
   entries |-> LastEntries(Append(b.entries, seq), ReplayMaxEvents)]

\* Fault: accepts a client whose next event has just left the window.
canResumeOffByOne(b, seq) ==
  \/ seq = b.lastSeq
  \/ /\ seq < b.lastSeq
     /\ b.entries # <<>>
     /\ b.entries[1] <= seq + 2

\* Whether the window can carry a client from seq to the present.
canResume(b, seq) ==
  \/ seq = b.lastSeq
  \/ /\ seq < b.lastSeq
     /\ b.entries # <<>>
     /\ b.entries[1] <= seq + 1

\* The positions, in the window, of the entries a client at seq has not seen.
after(b, seq) == {i \in DOMAIN b.entries : b.entries[i] > seq}

\* prune, when the k oldest entries are older than the cutoff.
prune(b, k) ==
  [lastSeq |-> b.lastSeq, entries |-> SubSeq(b.entries, k + 1, Len(b.entries))]

-------------------------------------------------------------------------------
(* What the rest of the gateway relies on.                                 *)

\* The window holds consecutive numbers that end at the counter: nothing was
\* assigned and not stored, and nothing was dropped from the middle.
Contiguous(b) ==
  /\ Len(b.entries) <= ReplayMaxEvents
  /\ Len(b.entries) <= b.lastSeq
  /\ \A i \in 1 .. Len(b.entries) :
       b.entries[i] = b.lastSeq - Len(b.entries) + i

\* A resume the buffer accepts can be carried out: what after returns is
\* exactly every number above the client's.
ResumeIsComplete(b, seq) ==
  canResume(b, seq) =>
    {b.entries[i] : i \in after(b, seq)} = (seq + 1) .. b.lastSeq
===============================================================================
