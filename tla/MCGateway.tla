------------------------------ MODULE MCGateway ------------------------------
(* Gateway for model checking.                                             *)
EXTENDS Gateway

\* Everybody is a member of every channel when the gateway starts.
AllMembers == [ch \in Channels |-> Users]

\* Two scenarios share the bounds: messages to one user who connects twice and
\* resumes from any number; and membership changes, hints and frames, two in
\* all, around the first connection of that user.
Dialer == CHOOSE u \in Users : TRUE
OneDialer == \A s \in Sockets : owner[s] \in {Dialer, NoUser}
Deliveries == used.hints + used.changes + used.frames = 0
Memberships ==
  /\ used.commits = 0 /\ used.dials <= 1
  /\ used.hints + used.changes + used.frames <= 2
  /\ \A s \in Sockets, ch \in Channels : cand[s][ch] = NoClaim
Scenarios == OneDialer /\ (Deliveries \/ Memberships)
===============================================================================
