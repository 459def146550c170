---------------------------- MODULE VaultRegister ---------------------------
(***************************************************************************)
(* What src/vault_app/storage.py promises of the vault file, without locks,*)
(* temporary files, backups or intermediate states: one register that is   *)
(* read and written in single steps, a write that was given a basis lands  *)
(* only where that basis still stands (or on nothing, when the vault has   *)
(* been destroyed meanwhile), and after a power failure the register holds *)
(* one of the values it has had since it was last known to be on disk.     *)
(*                                                                         *)
(* A call goes through the stages "none", "begun" and "written"; a call    *)
(* that ends before "written" has changed nothing, one that ends after it  *)
(* may or may not tell its writer.                                         *)
(***************************************************************************)
CONSTANTS
  Process,   \* the writers
  Value,     \* what the register can hold
  None       \* nothing: an empty register, no basis, no view

VARIABLES
  cell,      \* the register
  maybe,     \* what the register may hold after a power failure
  stage,     \* per process, how far its call is
  basis,     \* per process, the value its write is conditional on, or None
  view       \* per process, the value it believes to be in the register

vars == <<cell, maybe, stage, basis, view>>

Init ==
  /\ cell \in Value \union {None} /\ maybe = {cell}
  /\ stage = [p \in Process |-> "none"]
  /\ basis = [p \in Process |-> None]
  /\ view = [p \in Process |-> None]

Read(p) ==
  /\ stage[p] = "none" /\ cell # None
  /\ view' = [view EXCEPT ![p] = cell]
  /\ UNCHANGED <<cell, maybe, stage, basis>>

(* The call is conditional on what its process has seen, or on nothing.    *)
Begin(p) ==
  /\ stage[p] = "none"
  /\ \E b \in {view[p], None} : basis' = [basis EXCEPT ![p] = b]
  /\ stage' = [stage EXCEPT ![p] = "begun"]
  /\ UNCHANGED <<cell, maybe, view>>

Write(p) ==
  /\ stage[p] = "begun"
  /\ basis[p] # None => cell \in {basis[p], None}
  /\ \E v \in Value :
       cell' = v /\ maybe' = maybe \union {v}
  /\ stage' = [stage EXCEPT ![p] = "written"]
  /\ UNCHANGED <<basis, view>>

(* Success: the writer knows the value that is, or was, its own.           *)
Acknowledge(p) ==
  /\ stage[p] = "written"
  /\ stage' = [stage EXCEPT ![p] = "none"]
  /\ \/ \E v \in Value : view' = [view EXCEPT ![p] = v]
     \/ UNCHANGED view
  /\ basis' = [basis EXCEPT ![p] = None]
  /\ UNCHANGED <<cell, maybe>>

Abandon(p) ==
  /\ stage[p] \in {"begun", "written"}
  /\ stage' = [stage EXCEPT ![p] = "none"]
  /\ basis' = [basis EXCEPT ![p] = None]
  /\ UNCHANGED <<cell, maybe, view>>

Forget(p) ==
  /\ stage' = [stage EXCEPT ![p] = "none"]
  /\ basis' = [basis EXCEPT ![p] = None]
  /\ view' = [view EXCEPT ![p] = None]
  /\ UNCHANGED <<cell, maybe>>

Destroy ==
  /\ cell' = None /\ maybe' = maybe \union {None}
  /\ UNCHANGED <<stage, basis, view>>

Settle ==
  /\ maybe' = {cell}
  /\ UNCHANGED <<cell, stage, basis, view>>

PowerLoss ==
  /\ cell' \in maybe /\ maybe' = {cell'}
  /\ stage' = [p \in Process |-> "none"]
  /\ basis' = [p \in Process |-> None]
  /\ view' = [p \in Process |-> None]

Next ==
  \/ \E p \in Process :
       Read(p) \/ Begin(p) \/ Write(p) \/ Acknowledge(p) \/ Abandon(p) \/ Forget(p)
  \/ Destroy \/ Settle \/ PowerLoss

Spec == Init /\ [][Next]_vars
=============================================================================
