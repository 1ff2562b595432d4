------------------------------ MODULE MCClients -------------------------------
(* What a client holds, for model checking: the sessions of its account,   *)
(* and its view of a channel.  The two share no state and are explored one *)
(* at a time; the one that is not explored stays as it begins.             *)
EXTENDS Sessions, ChatSync, TLC

VARIABLE part      \* the part that is explored

MCInit ==
  /\ part \in {"sessions", "view"}
  /\ Init /\ SyncInit

SessionsMove == part = "sessions" /\ Next /\ UNCHANGED <<syncVars, part>>
ViewMoves    == part = "view" /\ SyncNext /\ UNCHANGED <<vars, part>>

MCNext == SessionsMove \/ ViewMoves

MCSpec == MCInit /\ [][MCNext]_<<vars, syncVars, part>>

\* Transactions are alike, and so are families, and REST reads.
Symmetric == Permutations(Txs) \cup Permutations(Families) \cup Permutations(Loads)
===============================================================================
