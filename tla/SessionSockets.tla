--------------------------- MODULE SessionSockets ----------------------------
(***************************************************************************)
(* Sessions and the sockets opened from them: a socket is bound to the     *)
(* session family that authenticated its handshake, and the gateway's      *)
(* sweep (closeRevoked in wsgateway.go) closes the sockets whose family is *)
(* no longer live.  The sweep reads the sockets under g.mu, then the       *)
(* families from the database, then closes; sign-ins, rotations,           *)
(* revocations and new sockets go on between those three.                  *)
(***************************************************************************)
EXTENDS Sessions

CONSTANT Sockets      \* one slot per connection the server can be serving

VARIABLES
  sock,     \* per slot: its phase and its familyID
  sweep     \* closeRevoked: where it is, its snapshot, the live families

allVars == <<vars, sock, sweep>>

NoSocket == [phase |-> "none", fam |-> NoFamily]
NoSweep  == [pc |-> "idle", snap |-> {}, live |-> {}]

SocketsInit ==
  /\ Init
  /\ sock  = [s \in Sockets |-> NoSocket]
  /\ sweep = NoSweep

Up(s) == sock[s].phase = "up"
-------------------------------------------------------------------------------
(* Sockets                                                                 *)

\* The handshake is authenticated by an access token of the family.
Dial(s, f) ==
  /\ sock[s] = NoSocket
  /\ Accepted(f) # {}
  /\ sock' = [sock EXCEPT ![s] = [phase |-> "hello", fam |-> f]]
  /\ UNCHANGED <<vars, sweep>>

\* hello arrives and the socket joins g.sockets, whatever has become of its
\* session meanwhile.
Join(s) ==
  /\ sock[s].phase = "hello"
  /\ sock' = [sock EXCEPT ![s].phase = "up"]
  /\ UNCHANGED <<vars, sweep>>

\* The connection ends: no hello in time, the client leaves, the sweep closed
\* it.  A later shutdown of the same socket does nothing.
Leave(s) ==
  /\ sock[s] # NoSocket
  /\ sock'  = [sock EXCEPT ![s] = NoSocket]
  /\ sweep' = [sweep EXCEPT !.snap = @ \ {s}]
  /\ UNCHANGED vars
-------------------------------------------------------------------------------
(* closeRevoked                                                            *)

SnapshotSockets ==
  /\ sweep.pc = "idle"
  /\ \E s \in Sockets : Up(s)
  /\ sweep' = [NoSweep EXCEPT !.pc = "list", !.snap = {s \in Sockets : Up(s)}]
  /\ UNCHANGED <<vars, sock>>

\* Fault: any live generation keeps the family on the list.
ListFamiliesByAnyGeneration ==
  /\ sweep.pc = "list"
  /\ sweep' = [sweep EXCEPT !.pc = "close",
                 !.live = {f \in Families : ListedByAnyGeneration(f)}]
  /\ UNCHANGED <<vars, sock>>

ListFamilies ==
  /\ sweep.pc = "list"
  /\ sweep' = [sweep EXCEPT !.pc = "close", !.live = {f \in Families : Listed(f)}]
  /\ UNCHANGED <<vars, sock>>

\* The query fails: nobody is closed this tick.
ListFails ==
  /\ sweep.pc = "list"
  /\ sweep' = NoSweep
  /\ UNCHANGED <<vars, sock>>

\* Fault: the sockets are read after the families.
CloseWithoutSnapshot ==
  /\ sweep.pc = "close"
  /\ sock' = [s \in Sockets |->
                IF Up(s) /\ sock[s].fam \notin sweep.live
                  THEN [sock[s] EXCEPT !.phase = "closed"] ELSE sock[s]]
  /\ sweep' = NoSweep
  /\ UNCHANGED vars

\* shutdown with 4401, of the sockets in the snapshot only.
CloseRevoked ==
  /\ sweep.pc = "close"
  /\ sock' = [s \in Sockets |->
                IF s \in sweep.snap /\ Up(s) /\ sock[s].fam \notin sweep.live
                  THEN [sock[s] EXCEPT !.phase = "closed"] ELSE sock[s]]
  /\ sweep' = NoSweep
  /\ UNCHANGED vars
-------------------------------------------------------------------------------
SocketsNext ==
  \/ Next /\ UNCHANGED <<sock, sweep>>
  \/ \E s \in Sockets : Join(s) \/ Leave(s) \/ \E f \in Families : Dial(s, f)
  \/ SnapshotSockets \/ ListFamilies \/ ListFails \/ CloseRevoked

SocketsSpec == SocketsInit /\ [][SocketsNext]_allVars

\* The ticker fires and the sweeper runs; the database does not fail for ever.
SocketsFairness ==
  /\ WF_allVars(SnapshotSockets)
  /\ SF_allVars(ListFamilies)
  /\ WF_allVars(CloseRevoked)

SocketsFairSpec == SocketsSpec /\ SocketsFairness
-------------------------------------------------------------------------------
(* Properties                                                              *)

\* A refresh token of the family can still be rotated.
Refreshable(f) == \E g \in Accepted(f) : ~rows[f][g].expired

\* The sweep never tells a client to go back to sign-in whose session is good:
\* what it closes belongs to a family that was revoked or ran out, never to one
\* that was signed in on after the sweep began (closeRevoked, "snapshotted
\* BEFORE the families are read").
LiveSocketsAreKept ==
  [][\A s \in Sockets :
       (Up(s) /\ sock'[s].phase = "closed")
         => \E g \in DOMAIN rows[sock[s].fam] :
              rows[sock[s].fam][g].revoked \/ rows[sock[s].fam][g].expired]_allVars

\* A socket of a family that is over does not stay: the sweep closes it even
\* though it never sends a frame (closeRevoked, ws-protocol.md section 7).
DeadSocketsAreClosed ==
  \A s \in Sockets, f \in Families :
    (Up(s) /\ sock[s].fam = f /\ ~Refreshable(f))
      ~> (~Up(s) \/ sock[s].fam # f \/ Refreshable(f))
===============================================================================
