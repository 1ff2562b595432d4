-------------------------------- MODULE MCMls ---------------------------------
(* The delivery service of end-to-end encryption for model checking.       *)
EXTENDS Mls, TLC

\* A workload names the requests that are made; all others are not.
Load(f) == f @@ [o \in Operations |-> 0]

SomeWorkloads == {
  Load([Submit |-> 2, Deregister |-> 1]),
  Load([Submit |-> 2, CreateGroup |-> 1, Commits |-> 1]),
  Load([Submit |-> 1, Membership |-> 1, Acknowledge |-> 1]),
  Load([Claim |-> 2, Replace |-> 1]),
  Load([Claim |-> 1, Replace |-> 2]),
  Load([Replace |-> 1, Deregister |-> 1, Claim |-> 1]),
  Load([Devices |-> 1, Register |-> 1, Deregister |-> 1, Membership |-> 1]),
  Load([Backup |-> 3, DeleteBackup |-> 1])}
===============================================================================
