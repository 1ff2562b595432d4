------------------------------ MODULE MCMessages ------------------------------
(* The messages of a channel for model checking.                           *)
EXTENDS Messages, TLC

\* A workload names the requests that are made; all others are not.
Load(f) == f @@ [o \in Operations |-> 0]

SomeWorkloads == {
  Load([SendMessage |-> 2, EditMessage |-> 1]),
  Load([EditMessage |-> 2, DeleteMessage |-> 1]),
  Load([UploadFile |-> 2, SendMessage |-> 2]),
  Load([UploadFile |-> 1, SendMessage |-> 1, DeleteMessage |-> 1, Search |-> 1]),
  Load([UploadFile |-> 1, SendMessage |-> 2, ListMessages |-> 1]),
  Load([SendMessage |-> 1, SetReadPosition |-> 2]),
  Load([EditMessage |-> 1, SendMessage |-> 1, Search |-> 1, Membership |-> 1])}

Plain == [link |-> 0, mentions |-> {}]
SomeBodies == {Plain, [link |-> 1, mentions |-> {2}]}

\* Requests are alike, and so are idempotency keys.
Symmetric == Permutations(Requests) \cup Permutations(Keys)
===============================================================================
