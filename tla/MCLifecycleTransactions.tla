---------------------- MODULE MCLifecycleTransactions -----------------------
(***************************************************************************)
(* Instances of LifecycleTransactions: one transaction of each kind, which *)
(* it is called after.  A requested transaction runs once; reconciliation  *)
(* and retention repeat.                                                   *)
(***************************************************************************)
EXTENDS LifecycleTransactions

KindByName == [t \in Txns |-> t]
=============================================================================
