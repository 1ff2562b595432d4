------------------------------- MODULE MCSignIn --------------------------------
(* Signing in, the second factor and password resets for model checking.   *)
EXTENDS SignIn, TLC

RequestSymmetry == Permutations(Requests)

\* A workload names the requests that are made; all others are not.
Load(first, f) == [start |-> first, ops |-> f @@ [o \in Operations |-> 0]]

SomeWorkloads == {
  Load("challenged", [Code |-> 2, Reset |-> 1]),
  Load("challenged", [Code |-> 3, Tick |-> 1]),
  Load("challenged", [Code |-> 1, Reset |-> 1, Expire |-> 1]),
  Load("challenged", [Disable |-> 1, Code |-> 1, Replace |-> 1, Policy |-> 1]),
  Load("challenged", [Disable |-> 1, Code |-> 2, Login |-> 1]),
  Load("on", [Login |-> 2, Reset |-> 1, Code |-> 2]),
  Load("verified", [Activate |-> 1, Login |-> 1, Start |-> 1, Expire |-> 1]),
  Load("verified", [Activate |-> 1, Login |-> 2, Policy |-> 1]),
  Load("off", [Start |-> 1, Verify |-> 2, Activate |-> 1]),
  Load("off", [Start |-> 1, Verify |-> 2, Expire |-> 1]),
  Load("required", [Login |-> 1, Start |-> 1, Verify |-> 2, Activate |-> 1]),
  Load("verified", [Start |-> 1, Verify |-> 1, Activate |-> 1, Login |-> 1]),
  Load("off", [Start |-> 2, Verify |-> 1, Activate |-> 1, Login |-> 1]),
  Load("off", [Login |-> 3, Reset |-> 1]),
  Load("required", [Mail |-> 2, Reset |-> 2, Login |-> 1]),
  Load("required", [Mail |-> 3, Reset |-> 2])}

\* A sign-in and a reset.
ResetBesideSignIn == {Load("off", [Login |-> 1, Reset |-> 1])}
===============================================================================
