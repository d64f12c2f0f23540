---------------------------- MODULE CommitOrder -----------------------------
(***************************************************************************)
(* What the transaction manager promises its callers (the comments of      *)
(* xacto/include/transaction.h and of trans_commit and trans_abort): every *)
(* transaction gets one final outcome, and it commits only after every     *)
(* transaction it depends on has.  No threads, locks, semaphores or        *)
(* reference counts: each operation is one step.                           *)
(***************************************************************************)
CONSTANT Trans

VARIABLES outcome,  \* [Trans -> TRANS_STATUS]
          deps      \* [Trans -> SUBSET Trans], the dependency sets

vars == <<outcome, deps>>

Init ==
  /\ outcome = [t \in Trans |-> "PENDING"]
  /\ deps = [t \in Trans |-> {}]

\* Only a transaction without an outcome becomes dependent.
Depend(t, d) ==
  /\ outcome[t] = "PENDING"
  /\ deps' = [deps EXCEPT ![t] = @ \cup {d}]
  /\ UNCHANGED outcome

Commit(t) ==
  /\ outcome[t] = "PENDING"
  /\ \A d \in deps[t] : outcome[d] = "COMMITTED"
  /\ outcome' = [outcome EXCEPT ![t] = "COMMITTED"]
  /\ UNCHANGED deps

Abort(t) ==
  /\ outcome[t] = "PENDING"
  /\ outcome' = [outcome EXCEPT ![t] = "ABORTED"]
  /\ UNCHANGED deps

\* A transaction nobody refers to is freed with its dependency set.
Forget(t) ==
  /\ outcome[t] # "PENDING"
  /\ deps' = [deps EXCEPT ![t] = {}]
  /\ UNCHANGED outcome

Next ==
  \E t \in Trans :
    \/ \E d \in Trans : Depend(t, d)
    \/ Commit(t) \/ Abort(t) \/ Forget(t)

Spec == Init /\ [][Next]_vars
=============================================================================
