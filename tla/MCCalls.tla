------------------------------- MODULE MCCalls --------------------------------
(* Channels, calls and conferences for model checking.                     *)
EXTENDS Calls, TLC

\* A workload names the requests that are made; all others are not.
Load(f) == f @@ [o \in Operations |-> 0]

SomeWorkloads == {
  Load([CreateChannel |-> 2, ListChannels |-> 1, RemoveChannelMember |-> 1]),
  Load([OpenDirectMessage |-> 2, AddChannelMember |-> 1, UpdateChannel |-> 1]),
  Load([RemoveChannelMember |-> 2, AddChannelMember |-> 1, UpdateChannel |-> 1]),
  Load([ListChannelMembers |-> 1, AddChannelMember |-> 1, RemoveChannelMember |-> 2]),
  Load([CreateChannel |-> 1, AddChannelMember |-> 1, RemoveChannelMember |-> 1]),
  Load([CreateCallToken |-> 1, RemoveChannelMember |-> 1]),
  Load([CreateCallToken |-> 1, DeactivateUser |-> 1]),
  Load([CreateConference |-> 1, RevokeConference |-> 2, JoinConference |-> 1])}

\* Requests are alike, and so are deliveries.
Symmetric == Permutations(Requests) \cup Permutations(Hooks)
===============================================================================
