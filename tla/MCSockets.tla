------------------------------ MODULE MCSockets -------------------------------
(* What the gateway keeps about its sockets, for model checking: the sweep *)
(* of ended sessions, the presence of a user, and how sockets come and go. *)
(* The three share no state and are explored one at a time; the ones that  *)
(* are not explored stay as they begin, where fairness asks nothing of     *)
(* them.  No symmetry: liveness is checked.                                *)
EXTENDS SessionSockets, Presence, SocketLifecycle

VARIABLE part      \* the part that is explored

Parts == {"sessions", "presence", "lifecycle"}

mcVars == <<allVars, presenceVars, lifecycleVars, part>>

MCInit ==
  /\ part \in Parts
  /\ SocketsInit /\ PresenceInit /\ LifecycleInit

\* The server has stopped, and nobody dials any more.
Stopped ==
  /\ closer.pc = "returned" /\ dials = MaxDials
  /\ UNCHANGED lifecycleVars

SessionsMove  == part = "sessions" /\ SocketsNext /\ UNCHANGED <<presenceVars, lifecycleVars, part>>
PresenceMoves == part = "presence" /\ PresenceNext /\ UNCHANGED <<allVars, lifecycleVars, part>>
SocketsMove   == part = "lifecycle" /\ LifecycleNext /\ UNCHANGED <<allVars, presenceVars, part>>
AtRest        == part = "lifecycle" /\ Stopped /\ UNCHANGED <<allVars, presenceVars, part>>

MCNext == SessionsMove \/ PresenceMoves \/ SocketsMove \/ AtRest

MCSpec ==
  /\ MCInit /\ [][MCNext]_mcVars
  /\ SocketsFairness /\ PresenceFairness /\ LifecycleFairness
===============================================================================
