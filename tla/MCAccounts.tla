------------------------------ MODULE MCAccounts -------------------------------
(* Accounts, single sign-on and the audit log for model checking.          *)
EXTENDS Accounts, TLC

Symmetry == Permutations(Requests) \cup Permutations(Persons)

\* A workload names the requests that are made; all others are not.
Load(first, f) == [start |-> first, ops |-> f @@ [o \in Operations |-> 0]]

SomeWorkloads == {
  Load("empty", [Boot |-> 2]),
  Load("team", [Update |-> 2]),
  Load("team", [Update |-> 1, ScimDelete |-> 1]),
  Load("team", [ScimWrite |-> 1, ScimDelete |-> 1]),
  Load("team", [ScimWrite |-> 1, Redeem |-> 1]),
  Load("team", [Redeem |-> 2]),
  Load("team", [Redeem |-> 1, Revoke |-> 1, Expire |-> 1]),
  Load("team", [Redeem |-> 1, Create |-> 1]),
  Load("team", [Sso |-> 2]),
  Load("team", [Sso |-> 1, ScimDelete |-> 1]),
  Load("team", [Sso |-> 1, Redeem |-> 1]),
  Load("team", [Sso |-> 1, ScimCreate |-> 1]),
  Load("team", [Sso |-> 1, Link |-> 1, Unlink |-> 1]),
  Load("team", [Sso |-> 2, Link |-> 1]),
  Load("team", [Force |-> 1, Invite |-> 1, List |-> 1]),
  Load("team", [Update |-> 1, Invite |-> 1, List |-> 1])}

\* An administrator makes an account.
MakesAccount == {Load("team", [Create |-> 1])}
===============================================================================
