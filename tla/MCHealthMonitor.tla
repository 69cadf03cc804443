----------------------------- MODULE MCHealthMonitor -----------------------------
(* Instances of HealthMonitor for TLC.  A slot is named by the code it runs. *)
EXTENDS HealthMonitor

LoopSlots == {"ping", "tcp", "metrics"}
LoopKinds == [t \in LoopSlots |-> t]

UserSlots == {"metrics", "inject", "manual", "test"}
UserKinds == [t \in UserSlots |-> t]
=============================================================================
