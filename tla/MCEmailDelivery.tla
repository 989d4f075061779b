--------------------------- MODULE MCEmailDelivery ---------------------------
(* Small instances of EmailDelivery for TLC. *)
EXTENDS EmailDelivery, TLC

(* process.pid differs between the processes of one host. *)
OwnPids == [w \in Workers |-> w]

Symmetric == Permutations(Workers)
=============================================================================
