----------------------------- MODULE MCDualCore -----------------------------
(* An instance of DualCore for TLC. *)
EXTENDS DualCore

MCFirstLoop == [c \in Core |-> c]
=============================================================================
