--------------------------- MODULE SocketLifecycle ---------------------------
(***************************************************************************)
(* How sockets of the gateway come and go (server/internal/wsgateway):     *)
(* each is served by a read loop and a write pump; whoever notices first   *)
(* names the close code, the pump sends it, and the socket is released     *)
(* once both have ended.  Close stops the gateway while sockets keep       *)
(* arriving.  What the sockets carry is the business of module Gateway.    *)
(***************************************************************************)
EXTENDS Integers, FiniteSets

CONSTANTS
  Slots,       \* one slot per connection
  MaxDials     \* bound: connections accepted

ASSUME LifecycleAssumptions == MaxDials \in Nat

VARIABLES
  closing,    \* g.closing
  live,       \* g.live, whose size is also the count of g.conns
  workers,    \* the goroutines of g.wg that still run
  cancelled,  \* g.cancel was called
  closer,     \* Close: where it is, and the sockets it has still to shut down
  reader,     \* per slot: the goroutine that serves it
  greeting,   \* per slot: the hello timer
  pump,       \* per slot: the write pump
  open,       \* per slot: the connection is open on this side
  code,       \* per slot: the close code that was named, or none
  dials       \* what has been spent of the bound

gateway == <<closing, live, workers, cancelled, closer>>
slots   == <<reader, greeting, pump, open, code>>
lifecycleVars == <<gateway, slots, dials>>

Codes == {"normal", "going away", "protocol error", "unauthorized", "heartbeat"}
None  == "none"

LifecycleInit ==
  /\ closing   = FALSE
  /\ live      = {}
  /\ workers   = {"dispatchLoop", "sweepLoop"}
  /\ cancelled = FALSE
  /\ closer    = [pc |-> "idle", left |-> {}]
  /\ reader    = [s \in Slots |-> "none"]
  /\ greeting  = [s \in Slots |-> "off"]
  /\ pump      = [s \in Slots |-> "none"]
  /\ open      = [s \in Slots |-> FALSE]
  /\ code      = [s \in Slots |-> None]
  /\ dials     = 0

\* closeOnce: the first caller names the code and wakes the pump.
shutdown(s, c) == code' = [code EXCEPT ![s] = IF @ = None THEN c ELSE @]
-------------------------------------------------------------------------------
(* serve and run                                                           *)

Accept(s) ==
  /\ reader[s] = "none"
  /\ dials < MaxDials
  /\ dials'  = dials + 1
  /\ reader' = [reader EXCEPT ![s] = "accepted"]
  /\ open'   = [open EXCEPT ![s] = TRUE]
  /\ UNCHANGED <<gateway, greeting, pump, code>>

\* Fault: the admission does not look at the closing flag.
trackAlways(s) ==
  /\ reader[s] = "accepted"
  /\ live'     = live \cup {s}
  /\ reader'   = [reader EXCEPT ![s] = "reading"]
  /\ greeting' = [greeting EXCEPT ![s] = "armed"]
  /\ pump'     = [pump EXCEPT ![s] = "running"]
  /\ UNCHANGED <<closing, workers, cancelled, closer, open, code, dials>>

\* track, and the start of the two goroutines; or, on a gateway that is
\* closing, the connection is closed at once.
track(s) ==
  /\ reader[s] = "accepted"
  /\ IF closing
       THEN /\ reader' = [reader EXCEPT ![s] = "none"]
            /\ open'   = [open EXCEPT ![s] = FALSE]
            /\ UNCHANGED <<live, greeting, pump>>
       ELSE /\ live'     = live \cup {s}
            /\ reader'   = [reader EXCEPT ![s] = "reading"]
            /\ greeting' = [greeting EXCEPT ![s] = "armed"]
            /\ pump'     = [pump EXCEPT ![s] = "running"]
            /\ UNCHANGED open
  /\ UNCHANGED <<closing, workers, cancelled, closer, code, dials>>

\* The hello timer fires ...
TimerFires(s) ==
  /\ greeting[s] = "armed"
  /\ greeting' = [greeting EXCEPT ![s] = "fired"]
  /\ UNCHANGED <<gateway, reader, pump, open, code, dials>>

\* ... and shuts the socket down, also when the hello has just come.
HelloTimeout(s) ==
  /\ greeting[s] = "fired"
  /\ greeting' = [greeting EXCEPT ![s] = "off"]
  /\ shutdown(s, "protocol error")
  /\ UNCHANGED <<gateway, reader, pump, open, dials>>

Hello(s) ==
  /\ reader[s] = "reading" /\ open[s] /\ greeting[s] \in {"armed", "fired"}
  /\ greeting' = [greeting EXCEPT ![s] = IF @ = "armed" THEN "off" ELSE @]
  /\ UNCHANGED <<gateway, reader, pump, open, code, dials>>

\* A frame the protocol forbids: the read loop names the code and ends.
BadFrame(s) ==
  /\ reader[s] = "reading" /\ open[s]
  /\ shutdown(s, "protocol error")
  /\ reader'   = [reader EXCEPT ![s] = "ended"]
  /\ greeting' = [greeting EXCEPT ![s] = "off"]
  /\ UNCHANGED <<gateway, pump, open, dials>>

\* The read fails: the connection was closed on this side, or the client went.
ReadFails(s) ==
  /\ reader[s] = "reading"
  /\ shutdown(s, "normal")
  /\ reader'   = [reader EXCEPT ![s] = "ended"]
  /\ greeting' = [greeting EXCEPT ![s] = "off"]
  /\ UNCHANGED <<gateway, pump, open, dials>>

\* Fault: the pump ends without closing the connection.
closeConnForgets(s) ==
  /\ pump[s] = "running" /\ code[s] # None
  /\ pump' = [pump EXCEPT ![s] = "ended"]
  /\ UNCHANGED <<gateway, reader, greeting, open, code, dials>>

\* The pump sees that the socket is done and sends the close frame.
closeConn(s) ==
  /\ pump[s] = "running" /\ code[s] # None
  /\ pump' = [pump EXCEPT ![s] = "ended"]
  /\ open' = [open EXCEPT ![s] = FALSE]
  /\ UNCHANGED <<gateway, reader, greeting, code, dials>>

\* A write fails or does not complete in time.
abort(s) ==
  /\ pump[s] = "running"
  /\ shutdown(s, "normal")
  /\ pump' = [pump EXCEPT ![s] = "ended"]
  /\ open' = [open EXCEPT ![s] = FALSE]
  /\ UNCHANGED <<gateway, reader, greeting, dials>>

HeartbeatTimeout(s) ==
  /\ pump[s] = "running"
  /\ shutdown(s, "heartbeat")
  /\ UNCHANGED <<gateway, reader, greeting, pump, open, dials>>

\* run returns: the pump was waited for, the socket is deregistered and
\* untracked.  The slot is free again.
untrack(s) ==
  /\ reader[s] = "ended" /\ pump[s] = "ended"
  /\ live'   = live \ {s}
  /\ reader' = [reader EXCEPT ![s] = "none"]
  /\ pump'   = [pump EXCEPT ![s] = "none"]
  /\ open'   = [open EXCEPT ![s] = FALSE]
  /\ code'   = [code EXCEPT ![s] = None]
  /\ closer' = [closer EXCEPT !.left = @ \ {s}]
  /\ UNCHANGED <<closing, workers, cancelled, greeting, dials>>
-------------------------------------------------------------------------------
(* The gateway                                                             *)

\* closeRevoked, of one socket.
SweepCloses(s) ==
  /\ "sweepLoop" \in workers /\ s \in live
  /\ shutdown(s, "unauthorized")
  /\ UNCHANGED <<gateway, reader, greeting, pump, open, dials>>

Close ==
  /\ closer.pc = "idle"
  /\ closing' = TRUE
  /\ closer'  = [pc |-> "shutdown", left |-> live]
  /\ UNCHANGED <<live, workers, cancelled, slots, dials>>

CloseSocket(s) ==
  /\ closer.pc = "shutdown" /\ s \in closer.left
  /\ shutdown(s, "going away")
  /\ closer' = [closer EXCEPT !.left = @ \ {s}]
  /\ UNCHANGED <<closing, live, workers, cancelled, reader, greeting, pump, open, dials>>

\* g.conns.Wait, then the two loops are told to stop.
CloseWaits ==
  /\ closer.pc = "shutdown" /\ closer.left = {} /\ live = {}
  /\ closer'    = [closer EXCEPT !.pc = "cancelled"]
  /\ cancelled' = TRUE
  /\ UNCHANGED <<closing, live, workers, slots, dials>>

WorkerEnds(w) ==
  /\ cancelled /\ w \in workers
  /\ workers' = workers \ {w}
  /\ UNCHANGED <<closing, live, cancelled, closer, slots, dials>>

CloseReturns ==
  /\ closer.pc = "cancelled" /\ workers = {}
  /\ closer' = [closer EXCEPT !.pc = "returned"]
  /\ UNCHANGED <<closing, live, workers, cancelled, slots, dials>>
-------------------------------------------------------------------------------
ReadLoop(s) == Hello(s) \/ BadFrame(s) \/ ReadFails(s)

\* What ends a socket that is shut down, and Close.
Ending(s) ==
  \/ track(s)
  \/ closeConn(s)
  \/ ~open[s] /\ ReadFails(s)
  \/ untrack(s)

Closing ==
  \/ \E s \in Slots : CloseSocket(s)
  \/ CloseWaits \/ CloseReturns
  \/ \E w \in workers : WorkerEnds(w)

LifecycleNext ==
  \/ \E s \in Slots :
       \/ Accept(s) \/ track(s) \/ TimerFires(s) \/ HelloTimeout(s) \/ ReadLoop(s)
       \/ closeConn(s) \/ abort(s) \/ HeartbeatTimeout(s) \/ untrack(s) \/ SweepCloses(s)
  \/ Close \/ Closing

LifecycleSpec == LifecycleInit /\ [][LifecycleNext]_lifecycleVars

\* Goroutines run, a read on a closed connection returns, and closing a
\* connection is bounded by the library's timeout.  Nothing obliges a client to
\* leave or the operator to stop the server.
LifecycleFairness ==
  /\ \A s \in Slots : WF_lifecycleVars(Ending(s))
  /\ WF_lifecycleVars(Closing)

LifecycleFairSpec == LifecycleSpec /\ LifecycleFairness
-------------------------------------------------------------------------------
(* Properties                                                              *)

\* The state is well formed: in particular a socket only ever gets a close code
\* the protocol has (shutdown, closeConn and abort in conn.go).
LifecycleTypeOK ==
  /\ closing \in BOOLEAN /\ cancelled \in BOOLEAN
  /\ live \subseteq Slots
  /\ workers \subseteq {"dispatchLoop", "sweepLoop"}
  /\ closer \in [pc : {"idle", "shutdown", "cancelled", "returned"}, left : SUBSET Slots]
  /\ reader \in [Slots -> {"none", "accepted", "reading", "ended"}]
  /\ greeting \in [Slots -> {"off", "armed", "fired"}]
  /\ pump \in [Slots -> {"none", "running", "ended"}]
  /\ open \in [Slots -> BOOLEAN]
  /\ code \in [Slots -> Codes \cup {None}]
  /\ dials \in Nat

\* When Close returns, nothing of the gateway runs any more, and a connection
\* that was accepted meanwhile is not served afterwards ("every goroutine it
\* owned is gone by the time it returns").
NothingOutlivesClose ==
  closer.pc = "returned" =>
    /\ workers = {}
    /\ \A s \in Slots : reader[s] \in {"none", "accepted"} /\ pump[s] = "none"

\* While sockets are served the two loops are there to serve them: the
\* dispatcher and the sweep stop only after the last socket is released.
LoopsOutliveSockets == live # {} => ~cancelled

\* Close returns, whatever the clients do and whoever arrives.
CloseTerminates == closing ~> closer.pc = "returned"

\* A socket for which a code was named is released: no order of read loop,
\* pump, timer and sweep leaves one of its goroutines waiting for the other.
ShutDownSocketsEnd == \A s \in Slots : code[s] # None ~> code[s] = None

\* Whatever has been told to end, ends: Close, and each socket.
EverythingEnds == CloseTerminates /\ ShutDownSocketsEnd
===============================================================================
