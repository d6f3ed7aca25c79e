-------------------------- MODULE MCReceivePipeline --------------------------
(* Instances of ReceivePipeline for TLC. *)
EXTENDS ReceivePipeline
=============================================================================
